---- MODULE Spec2Model ----
(***************************************************************************)
(* A model of the measurement pre-processing core of EventStreamGPT:       *)
(*   EventStream/EventStreamData/event_stream_dataset_base.py   (base)     *)
(*   EventStream/EventStreamData/event_stream_dataset_polars.py (polars)   *)
(*   EventStream/utils.py                                                  *)
(*                                                                         *)
(* Specifications:                                                         *)
(*   SpecBounds     the bound policy drop_or_censor as a function of one   *)
(*                  value and the six bound arguments.                     *)
(*   Spec           the life cycle of a dataset: fit_measurements,         *)
(*                  transform_measurements and reads of                    *)
(*                  measurement_configs, in any order.                     *)
(*   SpecData       repeated fit_measurements over varied data, splits     *)
(*                  and thresholds.                                        *)
(*   SpecTransform  one fit_measurements followed by repeated              *)
(*                  transform_measurements over declared bounds.           *)
(*   SpecWrite      fit and transform over tables with null cells and      *)
(*                  measurements limited to some event types.              *)
(*   SpecReconfig   fit and transform with the caller changing the         *)
(*                  outlier detector configuration in between.             *)
(*   SpecDL         fit, transform and build_DL_cached_representation      *)
(*                  over events with timestamps.                           *)
(*   SpecScenario   one fit over a training split of six given values.     *)
(*   SpecValidate   _validate_id_col on one id column.                      *)
(*   SpecSplit      split over a set of subject ids.                        *)
(*   SpecPreprocess calls of preprocess_measurements on one dataset.        *)
(*   SpecCounts     fit_measurements under count and proportion minima.     *)
(*   SpecInfer      one call of _add_inferred_val_types or of               *)
(*                  _fit_measurement_metadata on the rows of two keys.      *)
(*   SpecCategorical one call of _transform_categorical_measurement.        *)
(***************************************************************************)
EXTENDS Integers, Sequences, FiniteSets, TLC

VARIABLES
    bp_args,    \* drop_or_censor: the arguments of the call under study
    bp_result,  \* drop_or_censor: what the call returned
    self_config,                  \* self.config: thresholds and model configs
    heap,                         \* the MeasurementConfig objects, by reference
    inferred_measurement_configs, \* measure -> reference of its inferred config
    subjects_df, events_df, dynamic_measurements_df,
    split_subjects,               \* split name -> set of subject ids
    _is_fit,
    pc,          \* the running call and its position in the loop
    raised,      \* the exception that ended the last call
    read_result, \* what the last read of measurement_configs gave
    calls,       \* the number of calls made so far
    limits,      \* the number of calls a behaviour may make
    hist         \* history: snapshots the properties refer to

boundVars == <<bp_args, bp_result>>
vars == <<bp_args, bp_result, self_config, heap, inferred_measurement_configs,
          subjects_df, events_df, dynamic_measurements_df, split_subjects,
          _is_fit, pc, raised, read_result, calls, limits, hist>>

(***************************************************************************)
(* Cells of a Float64 column.  A cell is a number, null (missing entry) or *)
(* NaN (the "dropped" sentinel of drop_or_censor).  Absent is Python's     *)
(* None passed for an optional argument: not a cell, the argument itself.  *)
(***************************************************************************)
Null == [k |-> "null", n |-> 0]
NaN == [k |-> "nan", n |-> 0]
Absent == [k |-> "absent", n |-> 0]
Num(x) == [k |-> "num", n |-> x]
IsNum(c) == c.k = "num"

(***************************************************************************)
(* Polars comparisons on Float64 are three-valued: "T", "F", or "N" (null) *)
(* when an operand is null; a comparison with NaN is false (IEEE).         *)
(***************************************************************************)
Lt3(a, b) ==
    IF a.k = "null" \/ b.k = "null" THEN "N"
    ELSE IF a.k = "nan" \/ b.k = "nan" THEN "F"
    ELSE IF a.n < b.n THEN "T" ELSE "F"
Gt3(a, b) == Lt3(b, a)
Eq3(a, b) ==
    IF a.k = "null" \/ b.k = "null" THEN "N"
    ELSE IF a.k = "nan" \/ b.k = "nan" THEN "F"
    ELSE IF a.n = b.n THEN "T" ELSE "F"
\* Kleene | and & of polars Boolean expressions
Or3(p, q) ==
    IF p = "T" \/ q = "T" THEN "T"
    ELSE IF p = "F" /\ q = "F" THEN "F" ELSE "N"
And3(p, q) ==
    IF p = "F" \/ q = "F" THEN "F"
    ELSE IF p = "T" /\ q = "T" THEN "T" ELSE "N"

(***************************************************************************)
(* EventStreamDataset.drop_or_censor (polars 83-149).  The conditions are  *)
(* appended in the order drop-lower, drop-upper, censor-lower,             *)
(* censor-upper, each only when its bound argument is not None; the        *)
(* when/then chain returns the value of the first condition that is true   *)
(* (a null condition does not fire), otherwise the column itself.          *)
(***************************************************************************)
\* mutant: the inclusive flag of the lower drop bound is ignored
DropLowerCondStrict(col, b) == Lt3(col, b.drop_lower_bound)
DropLowerCond(col, b) ==
    Or3(Lt3(col, b.drop_lower_bound),
        And3(Eq3(col, b.drop_lower_bound), b.drop_lower_bound_inclusive))
DropUpperCond(col, b) ==
    Or3(Gt3(col, b.drop_upper_bound),
        And3(Eq3(col, b.drop_upper_bound), b.drop_upper_bound_inclusive))

\* mutant: the censor conditions are appended before the drop conditions
CensorBeforeDropConditions(col, b) ==
    (IF b.censor_lower_bound # Absent
        THEN << <<Lt3(col, b.censor_lower_bound), b.censor_lower_bound>> >> ELSE << >>)
    \o (IF b.censor_upper_bound # Absent
        THEN << <<Gt3(col, b.censor_upper_bound), b.censor_upper_bound>> >> ELSE << >>)
    \o (IF b.drop_lower_bound # Absent
        THEN << <<DropLowerCond(col, b), NaN>> >> ELSE << >>)
    \o (IF b.drop_upper_bound # Absent
        THEN << <<DropUpperCond(col, b), NaN>> >> ELSE << >>)

\* mutant: the censor-upper condition is never appended
NoCensorUpperConditions(col, b) ==
    (IF b.drop_lower_bound # Absent
        THEN << <<DropLowerCond(col, b), NaN>> >> ELSE << >>)
    \o (IF b.drop_upper_bound # Absent
        THEN << <<DropUpperCond(col, b), NaN>> >> ELSE << >>)
    \o (IF b.censor_lower_bound # Absent
        THEN << <<Lt3(col, b.censor_lower_bound), b.censor_lower_bound>> >> ELSE << >>)

\* conditions = [] ... conditions.append(...) (polars 128-143)
conditions(col, b) ==
    (IF b.drop_lower_bound # Absent
        THEN << <<DropLowerCond(col, b), NaN>> >> ELSE << >>)
    \o (IF b.drop_upper_bound # Absent
        THEN << <<DropUpperCond(col, b), NaN>> >> ELSE << >>)
    \o (IF b.censor_lower_bound # Absent
        THEN << <<Lt3(col, b.censor_lower_bound), b.censor_lower_bound>> >> ELSE << >>)
    \o (IF b.censor_upper_bound # Absent
        THEN << <<Gt3(col, b.censor_upper_bound), b.censor_upper_bound>> >> ELSE << >>)

\* pl.when(c1).then(v1).when(c2).then(v2)....otherwise(col)
RECURSIVE WhenThenChain(_, _)
WhenThenChain(conds, otherwise) ==
    IF conds = << >> THEN otherwise
    ELSE IF Head(conds)[1] = "T" THEN Head(conds)[2]
    ELSE WhenThenChain(Tail(conds), otherwise)

drop_or_censor(col, b) ==
    IF conditions(col, b) = << >> THEN col
    ELSE WhenThenChain(conditions(col, b), col)

(***************************************************************************)
(* SpecBounds: one call of drop_or_censor on every value and every         *)
(* combination of bound arguments within MaxBoundVal.                      *)
(***************************************************************************)
MaxBoundVal == 3

BoundCells == {Null, NaN} \cup {Num(x) : x \in 0..MaxBoundVal}
BoundArgs == {Absent, Null} \cup {Num(x) : x \in 0..MaxBoundVal}
InclusiveArgs == {"T", "F", "N"}
BoundRecords ==
    [drop_lower_bound : BoundArgs, drop_lower_bound_inclusive : InclusiveArgs,
     drop_upper_bound : BoundArgs, drop_upper_bound_inclusive : InclusiveArgs,
     censor_lower_bound : BoundArgs, censor_upper_bound : BoundArgs]

InitBounds ==
    /\ bp_args \in [col : BoundCells, b : BoundRecords]
    /\ bp_result = [done |-> FALSE, out |-> Null]
    /\ self_config = << >> /\ heap = << >> /\ inferred_measurement_configs = << >>
    /\ subjects_df = << >> /\ events_df = << >> /\ dynamic_measurements_df = << >>
    /\ split_subjects = << >> /\ _is_fit = FALSE /\ pc = << >> /\ raised = << >>
    /\ read_result = << >> /\ calls = << >> /\ limits = << >> /\ hist = << >>

CallDropOrCensor ==
    /\ ~bp_result.done
    /\ bp_result' = [done |-> TRUE, out |-> drop_or_censor(bp_args.col, bp_args.b)]
    /\ UNCHANGED <<bp_args, self_config, heap, inferred_measurement_configs,
                   subjects_df, events_df, dynamic_measurements_df, split_subjects,
                   _is_fit, pc, raised, read_result, calls, limits, hist>>

NextBounds == CallDropOrCensor

SpecBounds == InitBounds /\ [][NextBounds]_vars

(***************************************************************************)
(* Properties of the bound policy, checked under SpecBounds.               *)
(***************************************************************************)
\* x lies outside the drop bounds of b: strictly outside, or equal to a
\* bound whose inclusive flag is true
OutsideDropBound(x, b) ==
    /\ IsNum(x)
    /\ \/ /\ IsNum(b.drop_lower_bound)
          /\ \/ x.n < b.drop_lower_bound.n
             \/ x.n = b.drop_lower_bound.n /\ b.drop_lower_bound_inclusive = "T"
       \/ /\ IsNum(b.drop_upper_bound)
          /\ \/ x.n > b.drop_upper_bound.n
             \/ x.n = b.drop_upper_bound.n /\ b.drop_upper_bound_inclusive = "T"
OutsideCensorBound(x, b) ==
    /\ IsNum(x)
    /\ \/ IsNum(b.censor_lower_bound) /\ x.n < b.censor_lower_bound.n
       \/ IsNum(b.censor_upper_bound) /\ x.n > b.censor_upper_bound.n
HasDropBound(b) == IsNum(b.drop_lower_bound) \/ IsNum(b.drop_upper_bound)
HasCensorBound(b) == IsNum(b.censor_lower_bound) \/ IsNum(b.censor_upper_bound)
\* the censor bounds that are configured are themselves inside the drop bounds
CensorInsideDrop(b) ==
    /\ ~OutsideDropBound(b.censor_lower_bound, b)
    /\ ~OutsideDropBound(b.censor_upper_bound, b)
\* censor_lower_bound <= censor_upper_bound when both are configured
CensorOrdered(b) ==
    (IsNum(b.censor_lower_bound) /\ IsNum(b.censor_upper_bound))
        => b.censor_lower_bound.n <= b.censor_upper_bound.n

\* C9 as stated: with a drop bound defined, and whatever censor bounds are
\* configured, no retained value of drop_or_censor lies outside the drop
\* bound and every value that was outside it comes back as NaN.
C9_DropBoundAnyCensor ==
    (bp_result.done /\ HasDropBound(bp_args.b)) =>
        /\ ~OutsideDropBound(bp_result.out, bp_args.b)
        /\ OutsideDropBound(bp_args.col, bp_args.b) => bp_result.out = NaN

\* C9 amended: with a drop bound defined and every configured censor bound
\* itself inside the drop bounds, no retained value of drop_or_censor lies
\* outside the drop bound; and for any censor bounds at all, a value that
\* was outside the drop bound comes back as NaN, never as a censor bound.
C9_DropBound ==
    (bp_result.done /\ HasDropBound(bp_args.b)) =>
        /\ CensorInsideDrop(bp_args.b) => ~OutsideDropBound(bp_result.out, bp_args.b)
        /\ OutsideDropBound(bp_args.col, bp_args.b) => bp_result.out = NaN

\* C9 witness: a value outside the drop bound and outside a censor bound
\* has been dropped
C9_Witness ==
    /\ bp_result.done
    /\ IsNum(bp_args.b.drop_lower_bound) /\ IsNum(bp_args.b.censor_lower_bound)
    /\ CensorInsideDrop(bp_args.b)
    /\ IsNum(bp_args.col)
    /\ bp_args.col.n < bp_args.b.drop_lower_bound.n
    /\ bp_args.col.n < bp_args.b.censor_lower_bound.n
    /\ bp_result.out = NaN

\* C10 as stated: with censor bounds only, no retained value lies outside a
\* configured censor bound and a value inside the bounds is unchanged.
C10_CensorOnlyAnyOrder ==
    (bp_result.done /\ ~HasDropBound(bp_args.b) /\ HasCensorBound(bp_args.b)) =>
        /\ ~OutsideCensorBound(bp_result.out, bp_args.b)
        /\ (IsNum(bp_args.col) /\ ~OutsideCensorBound(bp_args.col, bp_args.b))
              => bp_result.out = bp_args.col

\* C10 amended: with censor bounds only, and censor_lower_bound <=
\* censor_upper_bound when both are configured, no retained value lies
\* outside a configured censor bound; a value inside the bounds is unchanged.
C10_CensorOnly ==
    (bp_result.done /\ ~HasDropBound(bp_args.b) /\ HasCensorBound(bp_args.b)) =>
        /\ CensorOrdered(bp_args.b) => ~OutsideCensorBound(bp_result.out, bp_args.b)
        /\ (IsNum(bp_args.col) /\ ~OutsideCensorBound(bp_args.col, bp_args.b))
              => bp_result.out = bp_args.col

\* C10 witness: a value above the upper censor bound has been clamped to it
C10_Witness ==
    /\ bp_result.done
    /\ ~HasDropBound(bp_args.b)
    /\ IsNum(bp_args.b.censor_lower_bound) /\ IsNum(bp_args.b.censor_upper_bound)
    /\ bp_args.b.censor_lower_bound.n < bp_args.b.censor_upper_bound.n
    /\ IsNum(bp_args.col) /\ bp_args.col.n > bp_args.b.censor_upper_bound.n
    /\ bp_result.out = bp_args.b.censor_upper_bound

(***************************************************************************)
(* The dataset object (base 221-257).  A table is a record [cols, rows]:   *)
(* the set of its column names and the set of its rows, each row a record  *)
(* that holds its id.  A field of a row whose name is not in cols is       *)
(* storage only: the column does not exist.                                *)
(*                                                                         *)
(* MeasurementConfig objects are mutable and shared by reference, so they  *)
(* live in heap; config.measurement_configs and                            *)
(* inferred_measurement_configs map a measure to a reference.              *)
(***************************************************************************)
NoStr == "<null>"   \* the null entry of a Utf8 / Categorical column

\* COUNT_OR_PROPORTION | None (utils 18-19): an int count, a float
\* proportion n/d, or None
NoneThr == [t |-> "none", n |-> 0, d |-> 1]
Count(c) == [t |-> "count", n |-> c, d |-> 1]
Prop(n, d) == [t |-> "prop", n |-> n, d |-> d]

\* Python round(): a non-negative a/b to the nearest integer, ties to even
PyRound(a, b) ==
    LET q == a \div b
        r == a % b
    IN IF 2 * r < b THEN q
       ELSE IF 2 * r > b THEN q + 1
       ELSE IF q % 2 = 0 THEN q ELSE q + 1
\* polars round(0): a non-negative a/b to the nearest integer, ties away
\* from zero
PlRound(a, b) == (2 * a + b) \div (2 * b)

\* mutant: the threshold is taken as a count, whatever its type
CountOrProportionAsCount(N, cnt_or_prop, N_is_expr) == cnt_or_prop.n
\* utils.count_or_proportion: N is a Python int (int(round(p * N))) or a
\* polars expression ((N * p).round(0).cast(int))
count_or_proportion(N, cnt_or_prop, N_is_expr) ==
    IF cnt_or_prop.t = "count" THEN cnt_or_prop.n
    ELSE IF N_is_expr THEN PlRound(cnt_or_prop.n * N, cnt_or_prop.d)
    ELSE PyRound(cnt_or_prop.n * N, cnt_or_prop.d)

\* mutant: a proportion of N_total is cut to a count, int(N * p)
LtCountOrProportionTruncating(N_obs, cnt_or_prop, N_total, N_is_expr) ==
    IF cnt_or_prop.t = "none" THEN FALSE
    ELSE IF cnt_or_prop.t = "count" THEN N_obs < cnt_or_prop.n
    ELSE N_obs < (cnt_or_prop.n * N_total) \div cnt_or_prop.d
\* utils.lt_count_or_proportion
lt_count_or_proportion(N_obs, cnt_or_prop, N_total, N_is_expr) ==
    IF cnt_or_prop.t = "none" THEN FALSE
    ELSE N_obs < count_or_proportion(N_total, cnt_or_prop, N_is_expr)

\* ---- tables ------------------------------------------------------------
\* getattr(self, attr)
TableOf(attr) ==
    CASE attr = "subjects_df" -> subjects_df
      [] attr = "events_df" -> events_df
      [] attr = "dynamic_measurements_df" -> dynamic_measurements_df

\* df.filter(pl.all([pl.col(c).is_in(targets[c]) for c in targets]))
_filter_col_inclusion(df, col_inclusion_targets) ==
    [df EXCEPT !.rows = {r \in df.rows :
        \A c \in DOMAIN col_inclusion_targets : r[c] \in col_inclusion_targets[c]}]

\* the split named sp is defined (self.split_subjects[sp] raises KeyError
\* otherwise)
HasSplit(sp) == sp \in DOMAIN split_subjects

train_subjects_df ==
    _filter_col_inclusion(subjects_df, [subject_id |-> split_subjects["train"]])
train_events_df ==
    _filter_col_inclusion(events_df, [subject_id |-> split_subjects["train"]])

\* event_types is None or a list (here a record [is_none, types]); split is
\* None ("") or a split name
_filter_measurements_df(event_types, split) ==
    LET by_type == IF event_types.is_none THEN << >>
                   ELSE [event_type |-> event_types.types]
        by_subject == IF split = "" THEN << >>
                      ELSE [subject_id |-> split_subjects[split]]
    IN _filter_col_inclusion(dynamic_measurements_df, by_type @@ by_subject)

\* mutant: the training filter is not applied
GetSourceDfIgnoringSplit(config, do_only_train) ==
    CASE config.temporality = "DYNAMIC" ->
            [source_attr |-> "dynamic_measurements_df", source_id |-> "measurement_id",
             source_df |-> _filter_measurements_df(config.present_in_event_types, "")]
      [] config.temporality = "STATIC" ->
            [source_attr |-> "subjects_df", source_id |-> "subject_id",
             source_df |-> subjects_df]
      [] config.temporality = "FUNCTIONAL_TIME_DEPENDENT" ->
            [source_attr |-> "events_df", source_id |-> "event_id",
             source_df |-> events_df]

\* base 458-481; evaluated only when the 'train' split exists or
\* do_only_train is false (see GetSourceRaises)
_get_source_df(config, do_only_train) ==
    CASE config.temporality = "DYNAMIC" ->
            [source_attr |-> "dynamic_measurements_df", source_id |-> "measurement_id",
             source_df |-> IF do_only_train
                 THEN _filter_measurements_df(config.present_in_event_types, "train")
                 ELSE _filter_measurements_df(config.present_in_event_types, "")]
      [] config.temporality = "STATIC" ->
            [source_attr |-> "subjects_df", source_id |-> "subject_id",
             source_df |-> IF do_only_train THEN train_subjects_df ELSE subjects_df]
      [] config.temporality = "FUNCTIONAL_TIME_DEPENDENT" ->
            [source_attr |-> "events_df", source_id |-> "event_id",
             source_df |-> IF do_only_train THEN train_events_df ELSE events_df]

\* self.split_subjects['train'] raises KeyError before split() was called
GetSourceRaises(do_only_train) == do_only_train /\ ~HasSplit("train")

\* source_df.drop_nulls(col) for a Utf8 / Categorical column
_drop_df_nulls(source_df, col) ==
    [source_df EXCEPT !.rows = {r \in source_df.rows : r[col] # NoStr}]

\* polars 410-423
_total_possible_and_observed(measure, config, source_df) ==
    IF config.temporality = "DYNAMIC"
    THEN [num_possible |-> Cardinality({r.event_id : r \in source_df.rows}),
          num_non_null |-> Cardinality({r.event_id :
                               r \in {x \in source_df.rows : x[measure] # NoStr}})]
    ELSE [num_possible |-> Cardinality(source_df.rows),
          num_non_null |-> Cardinality(_drop_df_nulls(source_df, measure).rows)]

\* ---- numbers -----------------------------------------------------------
\* A Float64 value x is held as the integer x * Unit
Unit == 2
Abs(x) == IF x < 0 THEN -x ELSE x
\* pl.col(c).round(0) on the scaled value: nearest integer, ties away from 0
Round0(n) == IF n >= 0 THEN Unit * PlRound(n, Unit) ELSE -(Unit * PlRound(-n, Unit))
RoundCell(c) == IF IsNum(c) THEN Num(Round0(c.n)) ELSE c
\* .cast(int).cast(pl.Utf8) of a rounded value, and .cast(pl.Utf8) of a float
IntStr(n) == ToString(Round0(n) \div Unit)
FloatStr(n) ==
    IF n % Unit = 0 THEN ToString(n \div Unit) \o ".0"
    ELSE ToString(n) \o "/" \o ToString(Unit)
Isqrt(n) == CHOOSE r \in 0..n : r * r <= n /\ (r + 1) * (r + 1) > n

RECURSIVE SumOver(_, _)
\* sum of f[x] over the finite set S
SumOver(S, f) ==
    IF S = {} THEN 0
    ELSE LET x == CHOOSE y \in S : TRUE IN f[x] + SumOver(S \ {x}, f)

\* ---- Vocabulary (vocabulary.py; used at base 527-539, polars 701-714) ---
NoVocab == [is_none |-> TRUE, vocabulary |-> << >>, obs_counts |-> << >>]

\* the fixed order that breaks ties between equally frequent symbols
RawSymbols == <<"a", "b", "k1", "k2">>
SymRank(s) ==
    IF \E i \in 1..Len(RawSymbols) : RawSymbols[i] = s
    THEN CHOOSE i \in 1..Len(RawSymbols) : RawSymbols[i] = s
    ELSE Len(RawSymbols) + 1

RECURSIVE SortByFrequency(_, _)
\* the symbols of S by descending count
SortByFrequency(S, counts) ==
    IF S = {} THEN << >>
    ELSE LET top == {s \in S : \A t \in S : counts[s] >= counts[t]}
             first == IF Cardinality(top) = 1 THEN CHOOSE s \in top : TRUE
                      ELSE CHOOSE s \in top : \A t \in top : SymRank(s) <= SymRank(t)
         IN <<first>> \o SortByFrequency(S \ {first}, counts)

\* Vocabulary(vocabulary=vocab_elements, obs_frequencies=el_counts): 'UNK'
\* first, then the observed symbols by descending frequency.  The
\* frequencies are kept as counts over their sum.
Vocabulary(counts) ==
    LET order == SortByFrequency(DOMAIN counts \ {"UNK"}, counts)
    IN [is_none |-> FALSE,
        vocabulary |-> <<"UNK">> \o order,
        obs_counts |-> <<IF "UNK" \in DOMAIN counts THEN counts["UNK"] ELSE 0>>
                       \o [i \in 1..Len(order) |-> counts[order[i]]]]

VocabTotal(v) == SumOver(1..Len(v.obs_counts), v.obs_counts)
vocab_set(v) == {v.vocabulary[i] : i \in 1..Len(v.vocabulary)}

\* the element at position i occurs with frequency >= the minimum, which is
\* a count out of total_observations or a proportion
FrequentEnough(v, i, total_observations, min_valid_element_freq) ==
    IF min_valid_element_freq.t = "count"
    THEN v.obs_counts[i] * total_observations >= min_valid_element_freq.n * VocabTotal(v)
    ELSE v.obs_counts[i] * min_valid_element_freq.d >= min_valid_element_freq.n * VocabTotal(v)

\* Vocabulary.filter: the elements below the minimum frequency are removed
\* and their frequency is added to 'UNK'
filter(v, total_observations, min_valid_element_freq) ==
    LET keep == {i \in 2..Len(v.vocabulary) :
                    FrequentEnough(v, i, total_observations, min_valid_element_freq)}
        gone == (2..Len(v.vocabulary)) \ keep
        idx == Cardinality(keep)
    IN [is_none |-> FALSE,
        vocabulary |-> SubSeq(v.vocabulary, 1, idx + 1),
        obs_counts |-> <<v.obs_counts[1] + SumOver(gone, v.obs_counts)>>
                       \o SubSeq(v.obs_counts, 2, idx + 1)]

\* ---- MeasurementConfig (config.py) ---------------------------------------
NoMetadata == [is_none |-> TRUE, rows |-> << >>]
NoFrequency == [is_none |-> TRUE, observed |-> 0, possible |-> 1]
NoEventTypes == [is_none |-> TRUE, types |-> {}]

NoOutlierModel == [is_null |-> TRUE, thresh_small_ |-> Null, thresh_large_ |-> Null]
NoNormalizer == [is_null |-> TRUE, mean_ |-> Null, std_ |-> Null]

\* a row of measurement_metadata without any entry
EmptyMetadataRow ==
    [value_type |-> NoStr, outlier_model |-> NoOutlierModel, normalizer |-> NoNormalizer,
     drop_lower_bound |-> Absent, drop_lower_bound_inclusive |-> "N",
     drop_upper_bound |-> Absent, drop_upper_bound_inclusive |-> "N",
     censor_lower_bound |-> Absent, censor_upper_bound |-> Absent]

MeasurementConfig(temporality, modality, values_column, present_in_event_types, metadata) ==
    [temporality |-> temporality, modality |-> modality,
     values_column |-> values_column,
     present_in_event_types |-> present_in_event_types,
     vocabulary |-> NoVocab, measurement_metadata |-> metadata,
     observation_frequency |-> NoFrequency]

is_dropped(config) == config.modality = "DROPPED"
is_numeric(config) ==
    config.modality \in {"MULTIVARIATE_REGRESSION", "UNIVARIATE_REGRESSION"}

\* MeasurementConfig.drop()
drop(config) ==
    [config EXCEPT !.modality = "DROPPED",
                   !.measurement_metadata = NoMetadata,
                   !.vocabulary = NoVocab]

\* MeasurementConfig.add_missing_mandatory_metadata_cols(): a config without
\* metadata gets an empty table with the mandatory columns
add_missing_mandatory_metadata_cols(config) ==
    IF config.measurement_metadata.is_none
    THEN [config EXCEPT !.measurement_metadata = [is_none |-> FALSE, rows |-> << >>]]
    ELSE config

\* ---- pre-processing models (Preprocessing; registry at polars 26-32) ---
PREPROCESSORS == {"stddev_cutoff", "standard_scaler"}
NoModelConfig == [is_none |-> TRUE, cls |-> "", stddev_cutoff |-> 0]

\* mutant: the class is not looked up in the registry
GetMetadataModelNeverRaises(model_config) == FALSE

\* _get_metadata_model raises KeyError: 'cls' is missing ("") or names no
\* registered class (base 113-120)
GetMetadataModelRaises(model_config) ==
    ~model_config.is_none /\ model_config.cls \notin PREPROCESSORS
\* get_metadata_schema looks both models up (polars 60-70)
GetMetadataSchemaRaises ==
    \/ GetMetadataModelRaises(self_config.outlier_detector_config)
    \/ GetMetadataModelRaises(self_config.normalizer_config)

Not3(p) == IF p = "T" THEN "F" ELSE IF p = "F" THEN "T" ELSE "N"

\* the values of a group of rows: count, sum and sum of squares
GroupCount(rows) == Cardinality(rows)
GroupSum(rows, vals_col) ==
    SumOver(rows, [r \in rows |-> r[vals_col].n])
GroupSumSq(rows, vals_col) ==
    SumOver(rows, [r \in rows |-> r[vals_col].n * r[vals_col].n])
\* column.mean() and column.std() (sample standard deviation, null for
\* fewer than two values), to the resolution of the model
GroupMean(rows, vals_col) == Num(GroupSum(rows, vals_col) \div GroupCount(rows))
GroupStd(rows, vals_col) ==
    LET n == GroupCount(rows)
        s == GroupSum(rows, vals_col)
        q == GroupSumSq(rows, vals_col)
    IN IF n < 2 THEN Null ELSE Num(Isqrt((n * q - s * s) \div (n * (n - 1))))

\* StddevCutoffOutlierDetector.fit_from_polars: mean +- stddev_cutoff * std
OutlierFit(rows, vals_col, model_config) ==
    LET mean == GroupMean(rows, vals_col)
        std == GroupStd(rows, vals_col)
    IN IF std = Null
       THEN [is_null |-> FALSE, thresh_small_ |-> Null, thresh_large_ |-> Null]
       ELSE [is_null |-> FALSE,
             thresh_small_ |-> Num(mean.n - model_config.stddev_cutoff * std.n),
             thresh_large_ |-> Num(mean.n + model_config.stddev_cutoff * std.n)]
\* StddevCutoffOutlierDetector.predict_from_polars: the outlier mask
OutlierPredict(val, outlier_model) ==
    Or3(Gt3(val, outlier_model.thresh_large_), Lt3(val, outlier_model.thresh_small_))

\* StandardScaler.fit_from_polars
NormalizerFit(rows, vals_col) ==
    [is_null |-> FALSE, mean_ |-> GroupMean(rows, vals_col),
     std_ |-> GroupStd(rows, vals_col)]
\* StandardScaler.predict_from_polars: (x - mean_) / std_, for std_ # 0
NormalizerPredict(val, normalizer) ==
    IF val.k = "null" \/ normalizer.mean_.k = "null" \/ normalizer.std_.k = "null"
    THEN Null
    ELSE IF val.k = "nan" \/ normalizer.std_.n = 0 THEN NaN
    ELSE Num(((val.n - normalizer.mean_.n) * Unit) \div normalizer.std_.n)

\* ---- value-type inference (polars 425-518) ------------------------------
KeysOf(rows, key_col) == {r[key_col] : r \in rows}
RowsOfKey(rows, key_col, k) == {r \in rows : r[key_col] = k}
\* the metadata row a left join on the key attaches to a source row
JoinedRow(md_rows, k) == IF k \in DOMAIN md_rows THEN md_rows[k] ELSE EmptyMetadataRow

_add_inferred_val_types(md_rows, rows, vocab_keys_col, vals_col) ==
    LET missing_val_types == {k \in DOMAIN md_rows : md_rows[k].value_type = NoStr}
        for_val_type_inference ==
            {r \in rows : r[vocab_keys_col] \notin DOMAIN md_rows
                          \/ r[vocab_keys_col] \in missing_val_types}
        inf_keys == KeysOf(for_val_type_inference, vocab_keys_col)
        mtf == self_config.min_true_float_frequency
        \* a. (vals == vals.round(0)).mean() > 1 - min_true_float_frequency
        IsInt(k) ==
            LET g == RowsOfKey(for_val_type_inference, vocab_keys_col, k)
            IN Cardinality({r \in g : r[vals_col].n = Round0(r[vals_col].n)}) * mtf.d
                   > Cardinality(g) * (mtf.d - mtf.n)
        int_keys == IF mtf.t = "none" THEN {} ELSE {k \in inf_keys : IsInt(k)}
        keys_a == IF mtf.t = "none" THEN DOMAIN md_rows ELSE DOMAIN md_rows \cup inf_keys
        is_int(k) ==
            IF mtf.t = "none" THEN (IF k \in DOMAIN md_rows THEN "F" ELSE "N")
            ELSE IF k \in inf_keys THEN (IF k \in int_keys THEN "T" ELSE "F")
            ELSE "N"
        inf_a == {IF r[vocab_keys_col] \in int_keys
                     THEN [r EXCEPT ![vals_col] = RoundCell(@)] ELSE r :
                  r \in for_val_type_inference}
        \* b. a single observed value
        dropped_keys ==
            {k \in inf_keys :
                Cardinality({r[vals_col] : r \in RowsOfKey(inf_a, vocab_keys_col, k)}) = 1}
        inf_b == {r \in inf_a : r[vocab_keys_col] \notin dropped_keys}
        value_type_b(k) ==
            IF k \notin keys_a THEN NoStr
            ELSE IF k \in dropped_keys THEN "dropped"
            ELSE JoinedRow(md_rows, k).value_type
        \* c. too few unique observations
        mu == self_config.min_unique_numerical_observations
        cat_keys == KeysOf(inf_b, vocab_keys_col)
        IsCategorical(k) ==
            LET g == RowsOfKey(inf_b, vocab_keys_col, k)
            IN lt_count_or_proportion(Cardinality({r[vals_col] : r \in g}), mu,
                                      Cardinality(g), TRUE)
        keys_c == IF mu.t = "none" THEN keys_a ELSE keys_a \cup cat_keys
        is_categorical(k) ==
            IF mu.t = "none" THEN "F"
            ELSE IF k \in cat_keys THEN (IF IsCategorical(k) THEN "T" ELSE "F")
            ELSE "N"
        inferred_value_type(k) ==
            IF And3(is_int(k), is_categorical(k)) = "T" THEN "categorical_integer"
            ELSE IF is_categorical(k) = "T" THEN "categorical_float"
            ELSE IF is_int(k) = "T" THEN "integer"
            ELSE "float"
    IN [k \in keys_c |->
           [JoinedRow(md_rows, k) EXCEPT !.value_type =
               IF value_type_b(k) # NoStr THEN value_type_b(k)
               ELSE inferred_value_type(k)]]
\* ---- fitting one numeric measurement (polars 520-663) -------------------
\* MULTIVARIATE_REGRESSION: the key column is the measure, the value column
\* is config.values_column, and the join of _prep_numerical_source
\* (polars 407) attaches JoinedRow(metadata, key) to every source row.
\* The steps of the function follow, last step first; each takes the
\* metadata and the rows its predecessors produced.

\* 5. the normalizer, per key, on the inliers (642-654)
FitNormalizers(measure, vals_col, md4, rows4) ==
    IF self_config.normalizer_config.is_none THEN md4
    ELSE [k \in DOMAIN md4 |->
             IF k \in KeysOf(rows4, measure)
             THEN [md4[k] EXCEPT !.normalizer =
                      NormalizerFit(RowsOfKey(rows4, measure, k), vals_col)]
             ELSE md4[k]]

\* 4b. the rows the fitted outlier models call inliers (632-640)
InlierRows(measure, vals_col, md4, rows3) ==
    IF self_config.outlier_detector_config.is_none THEN rows3
    ELSE {r \in rows3 :
             Not3(OutlierPredict(r[vals_col], md4[r[measure]].outlier_model)) = "T"}

\* 4a. the outlier detector, per key (617-631)
FitOutlierModels(measure, vals_col, md3, rows3) ==
    IF self_config.outlier_detector_config.is_none THEN md3
    ELSE [k \in DOMAIN md3 |->
             IF k \in KeysOf(rows3, measure)
             THEN [md3[k] EXCEPT !.outlier_model =
                      OutlierFit(RowsOfKey(rows3, measure, k), vals_col,
                                 self_config.outlier_detector_config)]
             ELSE md3[k]]

FitModelsFrom(measure, vals_col, md4, rows3) ==
    FitNormalizers(measure, vals_col, md4, InlierRows(measure, vals_col, md4, rows3))

FitModels(measure, vals_col, md3, rows3) ==
    FitModelsFrom(measure, vals_col, FitOutlierModels(measure, vals_col, md3, rows3), rows3)

\* 3b. only integer and float keys are kept; integer values are rounded
\* (604-615)
NumericRows(measure, vals_col, md3, rows2b) ==
    {IF JoinedRow(md3, r[measure]).value_type = "integer"
        THEN [r EXCEPT ![vals_col] = RoundCell(@)] ELSE r :
     r \in {x \in rows2b :
               JoinedRow(md3, x[measure]).value_type \in {"integer", "float"}}}

FitFromValTypes(measure, vals_col, md3, rows2b) ==
    FitModels(measure, vals_col, md3, NumericRows(measure, vals_col, md3, rows2b))

\* 2. null and NaN values go, then the bounds are applied (578-594)
BoundedRows(measure, vals_col, md0, rows1) ==
    LET bounded == {[r EXCEPT ![vals_col] =
                        drop_or_censor(@, JoinedRow(md0, r[measure]))] :
                    r \in {x \in rows1 : x[measure] # NoStr /\ IsNum(x[vals_col])}}
    IN {r \in bounded : IsNum(r[vals_col])}

\* 3a. value types (596-603), then the rest
FitFromBounded(measure, config, md1, rows2b) ==
    IF rows2b = {} THEN config.measurement_metadata
    ELSE [is_none |-> FALSE,
          rows |-> FitFromValTypes(measure, config.values_column,
                       _add_inferred_val_types(md1, rows2b, measure, config.values_column),
                       rows2b)]

\* 1. keys observed too rarely become DROPPED (543-576)
RareKeys(measure, config, rows0) ==
    LET mve == self_config.min_valid_vocab_element_observations
        dynamic == config.temporality = "DYNAMIC"
        num_possible == IF dynamic THEN Cardinality({r.event_id : r \in rows0})
                        ELSE Cardinality(rows0)
        NumNonNull(k) ==
            IF dynamic
            THEN Cardinality({r.event_id : r \in RowsOfKey(rows0, measure, k)})
            ELSE Cardinality(RowsOfKey(rows0, measure, k))
    IN IF mve.t = "none" THEN {}
       ELSE {k \in KeysOf(rows0, measure) :
                lt_count_or_proportion(NumNonNull(k), mve, num_possible, FALSE)}

\* mutant: the tag of a rare key is overwritten
WithRareKeysOverwritten(md0, dropped_keys) ==
    [k \in DOMAIN md0 \cup dropped_keys |->
        IF k \in dropped_keys
        THEN [JoinedRow(md0, k) EXCEPT !.value_type = "dropped"]
        ELSE JoinedRow(md0, k)]
\* 557-568: the outer join with the rare keys; coalesce keeps a tag that is set
WithRareKeysDropped(md0, dropped_keys) ==
    [k \in DOMAIN md0 \cup dropped_keys |->
        IF k \in dropped_keys /\ JoinedRow(md0, k).value_type = NoStr
        THEN [JoinedRow(md0, k) EXCEPT !.value_type = "dropped"]
        ELSE JoinedRow(md0, k)]

FitFromRareKeys(measure, config, md1, rows1) ==
    IF self_config.min_valid_vocab_element_observations.t # "none" /\ rows1 = {}
    THEN [is_none |-> FALSE, rows |-> md1]
    ELSE FitFromBounded(measure, config, md1,
             BoundedRows(measure, config.values_column,
                         config.measurement_metadata.rows, rows1))

FitAfterRareKeys(measure, config, rows0, dropped_keys) ==
    FitFromRareKeys(measure, config,
        WithRareKeysDropped(config.measurement_metadata.rows, dropped_keys),
        {r \in rows0 : r[measure] \notin dropped_keys})

\* the result is [raises, metadata]: get_metadata_schema raises for a model
\* that is not registered; metadata is what the function returns
_fit_measurement_metadata(measure, config, source_df) ==
    IF GetMetadataSchemaRaises
    THEN [raises |-> TRUE, metadata |-> config.measurement_metadata]
    ELSE [raises |-> FALSE,
          metadata |-> FitAfterRareKeys(measure, config, source_df.rows,
                                        RareKeys(measure, config, source_df.rows))]

\* ---- fitting one vocabulary (polars 665-714) ----------------------------
\* the symbol a row contributes: a categorical key is rewritten with its value
ObservedSymbol(r, measure, config) ==
    IF config.modality # "MULTIVARIATE_REGRESSION" THEN r[measure]
    ELSE LET value_type == JoinedRow(config.measurement_metadata.rows, r[measure]).value_type
             val == r[config.values_column]
         IN IF value_type = "categorical_integer"
            THEN (IF IsNum(val) THEN r[measure] \o "__EQ_" \o IntStr(val.n) ELSE NoStr)
            ELSE IF value_type = "categorical_float"
            THEN (IF IsNum(val) THEN r[measure] \o "__EQ_" \o FloatStr(val.n)
                  ELSE IF val = NaN THEN r[measure] \o "__EQ_NaN" ELSE NoStr)
            ELSE r[measure]

\* value_counts() of the observed symbols, as a Vocabulary (701-714)
VocabularyOf(observed) ==
    IF observed = {} THEN NoVocab
    ELSE Vocabulary([s \in {o.symbol : o \in observed} |->
                        Cardinality({o \in observed : o.symbol = s})])

\* the result is [raises, vocabulary]
_fit_vocabulary(measure, config, source_df) ==
    LET joined == IF config.modality = "MULTIVARIATE_REGRESSION"
                  THEN {r \in source_df.rows :
                           r[measure] \in DOMAIN config.measurement_metadata.rows}
                  ELSE source_df.rows
    IN \* .round(0).cast(int) is evaluated on every joined row: the strict
       \* cast of a NaN to an integer raises
       IF config.modality = "MULTIVARIATE_REGRESSION"
          /\ \E r \in joined : r[config.values_column] = NaN
       THEN [raises |-> TRUE, vocabulary |-> NoVocab]
       ELSE [raises |-> FALSE,
             vocabulary |-> VocabularyOf(
                 {o \in {[row |-> r, symbol |-> ObservedSymbol(r, measure, config)] :
                         r \in joined} : o.symbol # NoStr})]

\* ---- the body of the loop of fit_measurements (base 499-539) ------------
\* config is the deep copy; the result is the copy after the iteration and
\* the exception that ended it ("" for none)

\* 531-539: the fitted vocabulary is filtered; a vocabulary of 'UNK' alone
\* drops the measurement
StoreVocabulary(config, filtered) ==
    IF filtered.vocabulary = <<"UNK">>
    THEN [config |-> drop([config EXCEPT !.vocabulary = filtered]), raised |-> ""]
    ELSE [config |-> [config EXCEPT !.vocabulary = filtered], raised |-> ""]

FilterVocabulary(config, fv, total_observations) ==
    IF fv.raises THEN [config |-> config, raised |-> "ComputeError"]
    ELSE IF fv.vocabulary.is_none THEN [config |-> config, raised |-> ""]
    ELSE StoreVocabulary(config,
             IF self_config.min_valid_vocab_element_observations.t = "none"
             THEN fv.vocabulary
             ELSE filter(fv.vocabulary, total_observations,
                         self_config.min_valid_vocab_element_observations))

\* 527-539
FitVocabularyStage(measure, config, source_df) ==
    IF ~config.vocabulary.is_none THEN [config |-> config, raised |-> ""]
    ELSE FilterVocabulary(config, _fit_vocabulary(measure, config, source_df),
                          Cardinality(source_df.rows))

\* 516-525: the numeric metadata; a failure is re-raised as ValueError
FitMetadataStage(measure, config2, source_df, fm) ==
    IF fm.raises THEN [config |-> config2, raised |-> "ValueError"]
    ELSE FitVocabularyStage(measure,
             [config2 EXCEPT !.measurement_metadata = fm.metadata], source_df)

FitNumericStage(measure, config2, source_df) ==
    FitMetadataStage(measure, config2, source_df,
                     _fit_measurement_metadata(measure, config2, source_df))

\* 510-539, for a column with enough observations
FitObserved(measure, config1, source_df) ==
    IF is_numeric(config1)
    THEN FitNumericStage(measure, add_missing_mandatory_metadata_cols(config1), source_df)
    ELSE FitVocabularyStage(measure, config1, source_df)

\* mutant: the counts are recorded before the column is looked for
FitCountedBeforeColumnCheck(measure, config, train_df, counts) ==
    IF measure \notin train_df.cols
    THEN [config |-> drop([config EXCEPT !.observation_frequency =
                              [is_none |-> FALSE, observed |-> 0, possible |-> 0]]),
          raised |-> ""]
    ELSE IF counts.num_possible = 0 THEN [config |-> drop(config), raised |-> ""]
    ELSE IF lt_count_or_proportion(counts.num_non_null,
                self_config.min_valid_column_observations, counts.num_possible, FALSE)
    THEN [config |-> drop([config EXCEPT !.observation_frequency =
                              [is_none |-> FALSE, observed |-> counts.num_non_null,
                               possible |-> counts.num_possible]]),
          raised |-> ""]
    ELSE FitObserved(measure,
             [config EXCEPT !.observation_frequency =
                 [is_none |-> FALSE, observed |-> counts.num_non_null,
                  possible |-> counts.num_possible]],
             _drop_df_nulls(train_df, measure))
\* 499-514
FitCounted(measure, config, train_df, counts) ==
    IF measure \notin train_df.cols THEN [config |-> drop(config), raised |-> ""]
    ELSE IF counts.num_possible = 0 THEN [config |-> drop(config), raised |-> ""]
    ELSE IF lt_count_or_proportion(counts.num_non_null,
                self_config.min_valid_column_observations, counts.num_possible, FALSE)
    THEN [config |-> drop([config EXCEPT !.observation_frequency =
                              [is_none |-> FALSE, observed |-> counts.num_non_null,
                               possible |-> counts.num_possible]]),
          raised |-> ""]
    ELSE FitObserved(measure,
             [config EXCEPT !.observation_frequency =
                 [is_none |-> FALSE, observed |-> counts.num_non_null,
                  possible |-> counts.num_possible]],
             _drop_df_nulls(train_df, measure))

FitOne(measure, config, train_df) ==
    FitCounted(measure, config, train_df,
               _total_possible_and_observed(measure, config, train_df))

\* ---- transforming one numeric measurement (polars 716-824) --------------
\* the expression keys_col (758-770) on a row whose key is key and whose
\* value is val, under the joined metadata row m
\* mutant: a key without a value type is rewritten like a categorical float
KeysExprRewritingUntyped(key, val, m) ==
    LET bounded == drop_or_censor(val, m)
    IN IF key = NoStr THEN NoStr
       ELSE IF m.value_type = "categorical_integer"
       THEN (IF bounded.k = "null" THEN NoStr
             ELSE IF bounded.k = "nan" THEN key \o "__EQ_-1"
             ELSE key \o "__EQ_" \o IntStr(bounded.n))
       ELSE IF m.value_type \in {"categorical_float", NoStr}
       THEN (IF bounded.k = "null" THEN NoStr
             ELSE IF bounded.k = "nan" THEN key \o "__EQ_NaN"
             ELSE key \o "__EQ_" \o FloatStr(bounded.n))
       ELSE key

KeysExpr(key, val, m) ==
    LET bounded == drop_or_censor(val, m)
    IN IF key = NoStr THEN NoStr
       ELSE IF m.value_type = "categorical_integer"
       THEN (IF bounded.k = "null" THEN NoStr
             ELSE IF bounded.k = "nan" THEN key \o "__EQ_-1"
             ELSE key \o "__EQ_" \o IntStr(bounded.n))
       ELSE IF m.value_type = "categorical_float"
       THEN (IF bounded.k = "null" THEN NoStr
             ELSE IF bounded.k = "nan" THEN key \o "__EQ_NaN"
             ELSE key \o "__EQ_" \o FloatStr(bounded.n))
       ELSE key

\* the expression vals_col (754-755, 772-783)
ValsExpr(val, m) ==
    IF m.value_type \in {"dropped", "categorical_integer", "categorical_float"} THEN NaN
    ELSE IF m.value_type = "integer" THEN RoundCell(drop_or_censor(val, m))
    ELSE drop_or_censor(val, m)

\* vals_col after line 803: pl.when(inliers_col).then(vals_col).otherwise(NaN)
InlierValsExpr(val, m) ==
    IF Not3(OutlierPredict(ValsExpr(val, m), m.outlier_model)) = "T"
    THEN ValsExpr(val, m) ELSE NaN

\* One source row through _transform_numerical_measurement.  The result is
\* [kept, key, val, is_inlier]; kept is false for a row that is in neither
\* present_source nor null_source at the end (its inlier flag is null).
\* source_df.with_columns(keys_col, vals_col) stores the two expressions
\* (785) as key1 and val1; null_idx, inliers_col and the normalizer then
\* evaluate the same expressions again on the stored columns (787, 802-805,
\* 819): key2 and val2.
TransformReevaluated(key1, val1, key2, val2, m) ==
    IF key2 = NoStr \/ ~IsNum(val2)
    THEN [kept |-> TRUE, key |-> key1, val |-> val1, is_inlier |-> "N"]
    ELSE IF self_config.outlier_detector_config.is_none
    THEN [kept |-> TRUE, key |-> key1,
          val |-> IF self_config.normalizer_config.is_none THEN val1
                  ELSE NormalizerPredict(val2, m.normalizer),
          is_inlier |-> "N"]
    ELSE IF Not3(OutlierPredict(val2, m.outlier_model)) = "N"
    THEN [kept |-> FALSE, key |-> key1, val |-> val1, is_inlier |-> "N"]
    ELSE IF Not3(OutlierPredict(val2, m.outlier_model)) = "F"
    THEN [kept |-> TRUE, key |-> key1, val |-> NaN, is_inlier |-> "F"]
    ELSE [kept |-> TRUE, key |-> key1,
          val |-> IF self_config.normalizer_config.is_none THEN val2
                  ELSE NormalizerPredict(InlierValsExpr(val2, m), m.normalizer),
          is_inlier |-> "T"]

TransformStored(key1, val1, m) ==
    TransformReevaluated(key1, val1, KeysExpr(key1, val1, m), ValsExpr(val1, m), m)

TransformNumericalRow(key, val, m) ==
    TransformStored(KeysExpr(key, val, m), ValsExpr(val, m), m)

InlierCol(measure) == measure \o "_is_inlier"

_transform_numerical_measurement(measure, config, source_df) ==
    [cols |-> IF self_config.outlier_detector_config.is_none THEN source_df.cols
              ELSE source_df.cols \cup {InlierCol(measure)},
     rows |-> {[o.row EXCEPT ![measure] = o.out.key,
                             ![config.values_column] = o.out.val,
                             ![InlierCol(measure)] = o.out.is_inlier] :
               o \in {x \in {[row |-> r,
                              out |-> TransformNumericalRow(r[measure],
                                          r[config.values_column],
                                          JoinedRow(config.measurement_metadata.rows,
                                                    r[measure]))] :
                             r \in source_df.rows} : x.out.kept}}]

\* ---- transforming one categorical measurement (polars 826-876) ----------
\* mutant: a symbol outside the vocabulary becomes null
TransformCategoricalToNull(measure, config, source_df) ==
    LET in_vocab(r) == r[measure] \in vocab_set(config.vocabulary)
        NewKey(r) == IF r[measure] = NoStr THEN NoStr
                     ELSE IF ~in_vocab(r) THEN NoStr ELSE r[measure]
    IN [source_df EXCEPT !.rows =
           {IF config.modality = "MULTIVARIATE_REGRESSION"
            THEN [r EXCEPT ![measure] = NewKey(r),
                           ![config.values_column] =
                               IF r[measure] # NoStr /\ ~in_vocab(r) THEN NaN ELSE @]
            ELSE [r EXCEPT ![measure] = NewKey(r)] : r \in source_df.rows}]
_transform_categorical_measurement(measure, config, source_df) ==
    LET in_vocab(r) == r[measure] \in vocab_set(config.vocabulary)
        NewKey(r) == IF r[measure] = NoStr THEN NoStr
                     ELSE IF ~in_vocab(r) THEN "UNK" ELSE r[measure]
    IN [source_df EXCEPT !.rows =
           {IF config.modality = "MULTIVARIATE_REGRESSION"
            THEN [r EXCEPT ![measure] = NewKey(r),
                           ![config.values_column] =
                               IF r[measure] # NoStr /\ ~in_vocab(r) THEN NaN ELSE @]
            ELSE [r EXCEPT ![measure] = NewKey(r)] : r \in source_df.rows}]

\* ---- update_attr_df (polars 878-886) -------------------------------------
ValueColumns == {"lab_val"}
InlierColumns == {"lab_is_inlier"}
\* pl.lit(None).cast(df[c].dtype): the null entry of the column c
NullOf(c) ==
    IF c \in ValueColumns THEN Null
    ELSE IF c \in InlierColumns THEN "N"
    ELSE NoStr

\* The columns to update are first set to null in every row of the table;
\* update() then fills in the entries of the rows whose id occurs in df
\* (a null entry of df leaves the null in place).
update_attr_df(attr, id_col, df, cols_to_update) ==
    LET old_df == TableOf(attr)
        Matches(o) == {n \in df.rows : n[id_col] = o[id_col]}
        NewRow(o) ==
            IF Matches(o) = {}
            THEN [c \in DOMAIN o |-> IF c \in cols_to_update THEN NullOf(c) ELSE o[c]]
            ELSE LET n == CHOOSE x \in Matches(o) : TRUE
                 IN [c \in DOMAIN o |-> IF c \in cols_to_update THEN n[c] ELSE o[c]]
    IN [cols |-> old_df.cols \cup cols_to_update,
        rows |-> {NewRow(o) : o \in old_df.rows}]

\* ---- the body of the loop of transform_measurements (base 569-589) ------
\* 577-583: the columns the iteration writes
UpdatedCols(measure, config) ==
    {measure}
    \cup (IF config.modality = "MULTIVARIATE_REGRESSION"
          THEN {config.values_column} ELSE {})
    \cup (IF is_numeric(config) /\ ~self_config.outlier_detector_config.is_none
          THEN {InlierCol(measure)} ELSE {})

\* 585-587
TransformCategoricalStage(measure, config, source_df) ==
    IF config.vocabulary.is_none THEN source_df
    ELSE _transform_categorical_measurement(measure, config, source_df)

\* 573-587
TransformSource(measure, config, source_df) ==
    TransformCategoricalStage(measure, config,
        IF is_numeric(config)
        THEN _transform_numerical_measurement(measure, config, source_df)
        ELSE source_df)

TransformFrom(measure, config, src) ==
    IF is_numeric(config) /\ GetMetadataSchemaRaises
    THEN [attr |-> src.source_attr, table |-> TableOf(src.source_attr),
          raised |-> "ValueError"]
    ELSE [attr |-> src.source_attr,
          table |-> update_attr_df(src.source_attr, src.source_id,
                        TransformSource(measure, config,
                                        _drop_df_nulls(src.source_df, measure)),
                        UpdatedCols(measure, config)),
          raised |-> ""]

\* the table named source_attr after the iteration for measure, and the
\* exception that ended it ("" for none)
TransformOne(measure, config) ==
    TransformFrom(measure, config, _get_source_df(config, FALSE))

\* ---- the declared measurements -------------------------------------------
\* config.measurement_configs, in the order of the dict
MeasureOrder == <<"not_present", "lab", "dropped", "cat">>
Measures == {MeasureOrder[i] : i \in 1..Len(MeasureOrder)}
DeclaredRef(m) == <<"declared", m>>
InferredRef(m) == <<"inferred", m>>

\* the objects inferred_measurement_configs refers to
InferredConfigs ==
    [m \in DOMAIN inferred_measurement_configs |-> heap[inferred_measurement_configs[m]]]
DeclaredConfigs == [m \in Measures |-> heap[DeclaredRef(m)]]

\* mutant: the declared object itself is stored, not a copy
DeepcopyAlias(h, ref, new_ref) == [heap |-> h, ref |-> ref]
\* mutant: an inferred object that exists is kept (dict.setdefault)
DeepcopySetdefault(h, ref, new_ref) ==
    IF new_ref \in DOMAIN h THEN [heap |-> h, ref |-> new_ref]
    ELSE [heap |-> (new_ref :> h[ref]) @@ h, ref |-> new_ref]
\* copy.deepcopy(config) (base 496): a new object with the same content
deepcopy(h, ref, new_ref) ==
    [heap |-> (new_ref :> h[ref]) @@ h, ref |-> new_ref]

\* mutant: the flag is not a precondition; the declared objects are
\* returned before a fit
MeasurementConfigsOrDeclared ==
    IF ~_is_fit THEN [kind |-> "configs", configs |-> DeclaredConfigs]
    ELSE [kind |-> "configs",
          configs |-> [m \in {x \in DOMAIN InferredConfigs : ~is_dropped(InferredConfigs[x])}
                          |-> InferredConfigs[m]]]
\* mutant: dropped entries are returned too
MeasurementConfigsUnfiltered ==
    IF ~_is_fit THEN [kind |-> "AssertionError", configs |-> << >>]
    ELSE [kind |-> "configs", configs |-> InferredConfigs]
\* the property measurement_configs (base 645-652)
measurement_configs ==
    IF ~_is_fit THEN [kind |-> "AssertionError", configs |-> << >>]
    ELSE [kind |-> "configs",
          configs |-> [m \in {x \in DOMAIN InferredConfigs : ~is_dropped(InferredConfigs[x])}
                          |-> InferredConfigs[m]]]

NoRead == [kind |-> "none", configs |-> << >>]
Idle == [op |-> "idle", i |-> 0]

tableVars == <<subjects_df, events_df, dynamic_measurements_df>>
fitVars == <<heap, inferred_measurement_configs>>
inputVars == <<self_config, split_subjects, limits>>

\* history: what a call of fit_measurements or transform_measurements left
\* behind when it ended (exception is "" for a call that returned)
NoSnapshot == [done |-> FALSE, raised |-> "", fits |-> 0, configs |-> << >>, tables |-> << >>]
Snapshot(exception, configs, tables) ==
    [done |-> TRUE, raised |-> exception, fits |-> calls.fit, configs |-> configs,
     tables |-> tables]
RecordFit(h, exception, configs) ==
    [h EXCEPT !.prev_fit = h.last_fit,
              !.last_fit = Snapshot(exception, configs, tableVars)]
RecordTransform(h, exception, tables) ==
    [h EXCEPT !.prev_transform = h.last_transform,
              !.last_transform = Snapshot(exception, InferredConfigs, tables)]

\* ---- fit_measurements (base 484-541) --------------------------------------
\* mutant: the flag is not cleared on entry
FitBeginKeepingFlag ==
    /\ pc.op = "idle"
    /\ calls.fit < limits.fit
    /\ _is_fit' = _is_fit
    /\ pc' = [op |-> "fit", i |-> 1]
    /\ raised' = [type |-> "", measure |-> ""]
    /\ read_result' = NoRead
    /\ calls' = [calls EXCEPT !.fit = @ + 1]
    /\ hist' = [hist EXCEPT !.processed = {}, !.last_call = "fit"]
    /\ UNCHANGED <<tableVars, fitVars, inputVars, boundVars>>
\* self._is_fit = False (489)
fit_measurements_begin ==
    /\ pc.op = "idle"
    /\ calls.fit < limits.fit
    /\ _is_fit' = FALSE
    /\ pc' = [op |-> "fit", i |-> 1]
    /\ raised' = [type |-> "", measure |-> ""]
    /\ read_result' = NoRead
    /\ calls' = [calls EXCEPT !.fit = @ + 1]
    /\ hist' = [hist EXCEPT !.processed = {}, !.last_call = "fit"]
    /\ UNCHANGED <<tableVars, fitVars, inputVars, boundVars>>

\* mutant: the loop goes on to the next measurement after an exception
ContinueAfterRaise(exception) == [op |-> "fit", i |-> pc.i + 1]
\* where the call goes after an iteration: the raise of line 525 (and any
\* exception that is not caught) ends the call
AfterIteration(exception) ==
    IF exception # "" THEN Idle ELSE [op |-> "fit", i |-> pc.i + 1]

\* 496-539: the copy is stored, then fitted in place
FitAndStore(measure, copied, fitted) ==
    /\ heap' = [copied.heap EXCEPT ![copied.ref] = fitted.config]
    /\ inferred_measurement_configs' =
           (measure :> copied.ref) @@ inferred_measurement_configs
    /\ pc' = AfterIteration(fitted.raised)
    /\ raised' = IF fitted.raised = "" THEN raised
                 ELSE [type |-> fitted.raised,
                       measure |-> IF fitted.raised = "ValueError" THEN measure ELSE ""]
    /\ hist' = IF fitted.raised = ""
               THEN [hist EXCEPT !.processed = @ \cup {measure}]
               ELSE RecordFit(hist, fitted.raised,
                              (measure :> fitted.config) @@ InferredConfigs)

FitCopy(measure, copied, train_df) ==
    FitAndStore(measure, copied, FitOne(measure, copied.heap[copied.ref], train_df))

\* one iteration of the loop (491-539)
fit_measurements_step ==
    /\ pc.op = "fit"
    /\ pc.i <= Len(MeasureOrder)
    /\ \E measure \in {MeasureOrder[pc.i]} :
          IF is_dropped(heap[DeclaredRef(measure)])
          THEN /\ pc' = [pc EXCEPT !.i = @ + 1]
               /\ hist' = [hist EXCEPT !.processed = @ \cup {measure}]
               /\ UNCHANGED <<fitVars, raised>>
          ELSE IF GetSourceRaises(TRUE)
          THEN /\ pc' = AfterIteration("KeyError")
               /\ raised' = [type |-> "KeyError", measure |-> ""]
               /\ hist' = RecordFit(hist, "KeyError", InferredConfigs)
               /\ UNCHANGED fitVars
          ELSE FitCopy(measure,
                       deepcopy(heap, DeclaredRef(measure), InferredRef(measure)),
                       _get_source_df(heap[DeclaredRef(measure)], TRUE).source_df)
    /\ read_result' = NoRead
    /\ UNCHANGED <<_is_fit, tableVars, inputVars, calls, boundVars>>

\* self._is_fit = True (541)
fit_measurements_end ==
    /\ pc.op = "fit"
    /\ pc.i > Len(MeasureOrder)
    /\ _is_fit' = TRUE
    /\ pc' = Idle
    /\ read_result' = NoRead
    /\ hist' = RecordFit(hist, "", InferredConfigs)
    /\ UNCHANGED <<raised, tableVars, fitVars, inputVars, calls, boundVars>>

\* ---- reading measurement_configs (base 645-652) ---------------------------
ReadMeasurementConfigs ==
    /\ limits.reads
    /\ read_result = NoRead
    /\ read_result' = measurement_configs
    /\ UNCHANGED <<_is_fit, pc, raised, calls, hist, tableVars, fitVars, inputVars,
                   boundVars>>

\* ---- transform_measurements (base 565-589) --------------------------------
\* the measures of self.measurement_configs.items(), in the order of the dict
TransformOrder ==
    SelectSeq(MeasureOrder, LAMBDA m : m \in DOMAIN measurement_configs.configs)

\* the call: evaluating self.measurement_configs asserts the flag
transform_measurements_begin ==
    /\ pc.op = "idle"
    /\ calls.transform < limits.transform
    /\ calls' = [calls EXCEPT !.transform = @ + 1]
    /\ IF measurement_configs.kind = "AssertionError"
       THEN /\ raised' = [type |-> "AssertionError", measure |-> ""]
            /\ pc' = Idle
       ELSE /\ raised' = [type |-> "", measure |-> ""]
            /\ pc' = [op |-> "transform", i |-> 1]
    /\ read_result' = NoRead
    /\ hist' = IF measurement_configs.kind = "AssertionError"
               THEN RecordTransform([hist EXCEPT !.last_call = "transform",
                                                 !.transformed = {}],
                                    "AssertionError", tableVars)
               ELSE [hist EXCEPT !.last_call = "transform", !.transformed = {}]
    /\ UNCHANGED <<_is_fit, tableVars, fitVars, inputVars, boundVars>>

\* mutant: the loop goes on to the next measurement after an exception
TransformContinuingAfterRaise(measure, out) ==
    /\ subjects_df' = IF out.attr = "subjects_df" THEN out.table ELSE subjects_df
    /\ events_df' = IF out.attr = "events_df" THEN out.table ELSE events_df
    /\ dynamic_measurements_df' =
           IF out.attr = "dynamic_measurements_df" THEN out.table
           ELSE dynamic_measurements_df
    /\ pc' = [pc EXCEPT !.i = @ + 1]
    /\ raised' = IF out.raised = "" THEN raised
                 ELSE [type |-> out.raised, measure |-> measure]
    /\ hist' = IF out.raised = ""
               THEN [hist EXCEPT !.transformed = @ \cup {measure}]
               ELSE RecordTransform(hist, out.raised, tableVars)
\* 589: the table is replaced; an exception ends the call
TransformAndStore(measure, out) ==
    /\ subjects_df' = IF out.attr = "subjects_df" THEN out.table ELSE subjects_df
    /\ events_df' = IF out.attr = "events_df" THEN out.table ELSE events_df
    /\ dynamic_measurements_df' =
           IF out.attr = "dynamic_measurements_df" THEN out.table
           ELSE dynamic_measurements_df
    /\ pc' = IF out.raised # "" THEN Idle ELSE [pc EXCEPT !.i = @ + 1]
    /\ raised' = IF out.raised = "" THEN raised
                 ELSE [type |-> out.raised, measure |-> measure]
    /\ hist' = IF out.raised = ""
               THEN [hist EXCEPT !.transformed = @ \cup {measure}]
               ELSE RecordTransform(hist, out.raised, tableVars)

\* one iteration of the loop (569-589)
transform_measurements_step ==
    /\ pc.op = "transform"
    /\ pc.i <= Len(TransformOrder)
    /\ TransformAndStore(TransformOrder[pc.i],
                         TransformOne(TransformOrder[pc.i],
                                      InferredConfigs[TransformOrder[pc.i]]))
    /\ read_result' = NoRead
    /\ UNCHANGED <<_is_fit, fitVars, inputVars, calls, boundVars>>

\* the loop is over: the call returns
transform_measurements_end ==
    /\ pc.op = "transform"
    /\ pc.i > Len(TransformOrder)
    /\ pc' = Idle
    /\ read_result' = NoRead
    /\ hist' = RecordTransform(hist, "", tableVars)
    /\ UNCHANGED <<_is_fit, raised, tableVars, fitVars, inputVars, calls, boundVars>>

Next ==
    \/ fit_measurements_begin
    \/ fit_measurements_step
    \/ fit_measurements_end
    \/ ReadMeasurementConfigs
    \/ transform_measurements_begin
    \/ transform_measurements_step
    \/ transform_measurements_end

\* fit_measurements alone
NextFit ==
    \/ fit_measurements_begin
    \/ fit_measurements_step
    \/ fit_measurements_end

\* fit_measurements and transform_measurements, without reads in between
NextFitTransform ==
    \/ fit_measurements_begin
    \/ fit_measurements_step
    \/ fit_measurements_end
    \/ transform_measurements_begin
    \/ transform_measurements_step
    \/ transform_measurements_end

\* ---- the datasets the specifications start from ---------------------------
NumSubjects == 2
NumDynRows == 2
MaxVal == 2
MaxFitCalls == 2
MaxTransformCalls == 2

Subjects == 1..NumSubjects
\* every subject has one event, with the id of the subject
Events == Subjects
SubjectOf(e) == e
EventType(e) == IF e % 2 = 1 THEN "A" ELSE "B"

SubjectsTable(temporality, cat_col) ==
    [cols |-> {"subject_id"} \cup (IF temporality = "STATIC" THEN {"cat"} ELSE {}),
     rows |-> {[subject_id |-> s,
                cat |-> IF temporality = "STATIC" THEN cat_col[s] ELSE NoStr] :
               s \in Subjects}]
EventsTable(temporality, cat_col) ==
    [cols |-> {"event_id", "subject_id", "timestamp", "event_type"}
              \cup (IF temporality = "FUNCTIONAL_TIME_DEPENDENT" THEN {"cat"} ELSE {}),
     rows |-> {[event_id |-> e, subject_id |-> SubjectOf(e), timestamp |-> e,
                event_type |-> EventType(e),
                cat |-> IF temporality = "FUNCTIONAL_TIME_DEPENDENT"
                        THEN cat_col[e] ELSE NoStr] :
               e \in Events}]
DynRow(r, e, key, val) ==
    [measurement_id |-> r, event_id |-> e, subject_id |-> SubjectOf(e),
     event_type |-> EventType(e), lab |-> key, lab_val |-> val, lab_is_inlier |-> "N"]
DynTable(f) ==
    [cols |-> {"measurement_id", "event_id", "subject_id", "event_type", "lab", "lab_val"},
     rows |-> {DynRow(r, f[r].e, f[r].key, f[r].val) : r \in 1..NumDynRows}]

Unsplit == << >>
SplitWithTrain(T) == [train |-> T, held_out |-> Subjects \ T]

StddevCutoff == [is_none |-> FALSE, cls |-> "stddev_cutoff", stddev_cutoff |-> 1]
StandardScaler == [is_none |-> FALSE, cls |-> "standard_scaler", stddev_cutoff |-> 0]
UnknownModel == [is_none |-> FALSE, cls |-> "unknown", stddev_cutoff |-> 0]

SelfConfig(mvco, mve, mu, mtf, odc, nzc) ==
    [min_valid_column_observations |-> mvco,
     min_valid_vocab_element_observations |-> mve,
     min_unique_numerical_observations |-> mu,
     min_true_float_frequency |-> mtf,
     outlier_detector_config |-> odc,
     normalizer_config |-> nzc]

DeclaredHeap(tcat, lab_metadata, lab_event_types) ==
    (DeclaredRef("not_present") :>
        MeasurementConfig("DYNAMIC", "SINGLE_LABEL_CLASSIFICATION", "", NoEventTypes,
                          NoMetadata))
    @@ (DeclaredRef("lab") :>
        MeasurementConfig("DYNAMIC", "MULTIVARIATE_REGRESSION", "lab_val",
                          lab_event_types, lab_metadata))
    @@ (DeclaredRef("dropped") :>
        MeasurementConfig("DYNAMIC", "DROPPED", "", NoEventTypes, NoMetadata))
    @@ (DeclaredRef("cat") :>
        MeasurementConfig(tcat, "SINGLE_LABEL_CLASSIFICATION", "", NoEventTypes,
                          NoMetadata))

\* the dataset object after construction (base 221-257) over one of the
\* given tables, splits and configurations
InitDataset(CatTemporalities, CatColumns, DynTables, Splits, SelfConfigs, LabMetadata, LabEventTypes, Limits) ==
    /\ \E tcat \in CatTemporalities, cat_col \in CatColumns,
          md \in LabMetadata, et \in LabEventTypes :
          /\ subjects_df = SubjectsTable(tcat, cat_col)
          /\ events_df = EventsTable(tcat, cat_col)
          /\ heap = DeclaredHeap(tcat, md, et)
    /\ dynamic_measurements_df \in DynTables
    /\ split_subjects \in Splits
    /\ self_config \in SelfConfigs
    /\ inferred_measurement_configs = << >>
    /\ _is_fit = FALSE
    /\ pc = Idle
    /\ raised = [type |-> "", measure |-> ""]
    /\ read_result = NoRead
    /\ calls = [fit |-> 0, transform |-> 0]
    /\ limits = Limits
    /\ hist = [declared0 |-> heap, processed |-> {}, transformed |-> {},
               last_call |-> "",
               last_fit |-> NoSnapshot, prev_fit |-> NoSnapshot,
               last_transform |-> NoSnapshot, prev_transform |-> NoSnapshot]
    /\ bp_args = << >>
    /\ bp_result = [done |-> TRUE, out |-> Null]

\* ---- Spec: the life cycle of one dataset ------------------------------------
CatColumnsSmall == {f \in [Subjects -> {NoStr, "a", "b"}] : f[1] = "a"}
DynTablesSmall ==
    {DynTable(f) : f \in {g \in [1..NumDynRows -> [e : Events, key : {"k1"},
                                                   val : {Num(Unit), Num(2 * Unit)}]] :
                            /\ \A r \in 1..NumDynRows : g[r].e = ((r - 1) % NumSubjects) + 1
                            /\ g[1].val = Num(Unit)}}
SplitsAll == {Unsplit} \cup {SplitWithTrain(T) : T \in SUBSET Subjects}
SelfConfigsSmall ==
    {SelfConfig(t, t, NoneThr, mtf, odc, NoModelConfig) :
        t \in {NoneThr, Count(2)}, mtf \in {NoneThr, Prop(1, 2)},
        odc \in {NoModelConfig, StddevCutoff, UnknownModel}}

Init ==
    InitDataset({"STATIC", "FUNCTIONAL_TIME_DEPENDENT"}, CatColumnsSmall, DynTablesSmall,
                SplitsAll, SelfConfigsSmall, {NoMetadata}, {NoEventTypes},
                [fit |-> MaxFitCalls, transform |-> MaxTransformCalls, reads |-> TRUE])

Spec == Init /\ [][Next]_vars

\* ---- SpecData: fit_measurements over a wider range of source data --------
\* a cell of the value column: null or one of the values 1/Unit .. MaxVal
RawVals == {Null} \cup {Num(n) : n \in 1..(MaxVal * Unit)}
DynTablesData ==
    {DynTable(f) : f \in {g \in [1..NumDynRows -> [e : Events, key : {NoStr, "k1", "k2"},
                                                   val : RawVals]] :
                            /\ \A r \in 1..NumDynRows :
                                  g[r].e \in {1, ((r - 1) % NumSubjects) + 1}
                            /\ g[1].key = "k1"}}
SplitsData == {SplitWithTrain(Subjects), SplitWithTrain({1})}
SelfConfigsData ==
    {SelfConfig(mvco, mve, mu, mtf, odc, NoModelConfig) :
        mvco \in {NoneThr, Prop(1, 2)}, mve \in {NoneThr, Count(2)},
        mu \in {NoneThr, Count(3)}, mtf \in {NoneThr, Prop(1, 2)},
        odc \in {NoModelConfig, StddevCutoff}}

InitData ==
    InitDataset({"STATIC"}, CatColumnsSmall, DynTablesData, SplitsData, SelfConfigsData,
                {NoMetadata}, {NoEventTypes},
                [fit |-> MaxFitCalls, transform |-> 0, reads |-> FALSE])

SpecData == InitData /\ [][NextFit]_vars

\* ---- SpecTransform: one fit, then transform_measurements twice -------------
\* declared metadata of the key k1: a value type (or none, to be inferred)
\* and bound columns
DeclaredBounds ==
    [drop_lower_bound : {Absent, Num(2)}, drop_lower_bound_inclusive : {"T"},
     drop_upper_bound : {Absent, Num(3)}, drop_upper_bound_inclusive : {"T", "F"},
     censor_lower_bound : {Absent, Num(2), Num(4)},
     censor_upper_bound : {Absent, Num(3)}]
DeclaredMetadataRow(value_type, b) ==
    [value_type |-> value_type, outlier_model |-> NoOutlierModel,
     normalizer |-> NoNormalizer,
     drop_lower_bound |-> b.drop_lower_bound,
     drop_lower_bound_inclusive |-> b.drop_lower_bound_inclusive,
     drop_upper_bound |-> b.drop_upper_bound,
     drop_upper_bound_inclusive |-> b.drop_upper_bound_inclusive,
     censor_lower_bound |-> b.censor_lower_bound,
     censor_upper_bound |-> b.censor_upper_bound]
LabMetadataTransform ==
    {NoMetadata}
    \cup {[is_none |-> FALSE, rows |-> [k \in {"k1"} |-> DeclaredMetadataRow(vt, b)]] :
             vt \in {NoStr, "float", "integer"},
             b \in {x \in DeclaredBounds :
                       x.drop_upper_bound = Absent => x.drop_upper_bound_inclusive = "F"}}
DynTablesTransform ==
    {DynTable(f) : f \in {g \in [1..NumDynRows -> [e : Events, key : {"k1", "k2"},
                                                   val : RawVals \ {Null}]] :
                            /\ \A r \in 1..NumDynRows : g[r].e = ((r - 1) % NumSubjects) + 1
                            /\ g[1].key = "k1"
                            /\ \A r \in 2..NumDynRows : g[r].val.n \in {2, 3}}}
SelfConfigsTransform ==
    {SelfConfig(NoneThr, NoneThr, t[2], t[1], m[1], m[2]) :
        t \in {<<NoneThr, NoneThr>>, <<Prop(1, 2), NoneThr>>, <<Prop(1, 2), Count(3)>>},
        m \in {<<NoModelConfig, NoModelConfig>>, <<StddevCutoff, NoModelConfig>>,
               <<NoModelConfig, StandardScaler>>}}

InitTransform ==
    InitDataset({"STATIC"}, {[s \in Subjects |-> IF s = 1 THEN "a" ELSE "b"]},
                DynTablesTransform, {SplitWithTrain(Subjects)}, SelfConfigsTransform,
                LabMetadataTransform, {NoEventTypes},
                [fit |-> 1, transform |-> MaxTransformCalls, reads |-> FALSE])

SpecTransform == InitTransform /\ [][NextFitTransform]_vars

(***************************************************************************)
(* Properties of the life cycle, checked under Spec.                       *)
(***************************************************************************)
DeclaredNonDropped == {m \in Measures : ~is_dropped(hist.declared0[DeclaredRef(m)])}
\* the position of the measure m in the loop of fit_measurements
PositionOf(m) == CHOOSE i \in 1..Len(MeasureOrder) : MeasureOrder[i] = m
\* the last call was fit_measurements and it has ended
FitEnded == pc.op = "idle" /\ hist.last_call = "fit"

\* C1: _is_fit is false from the entry of fit_measurements to the end of its
\* loop; it is true only when the loop of the last fit has gone through
\* every declared measurement (fitted, dropped or skipped as declared
\* dropped); and it is false after a fit that ended with an exception.
C1_FlagOnlyAfterLoop ==
    /\ pc.op = "fit" => ~_is_fit
    /\ _is_fit => /\ hist.processed = Measures
                  /\ DeclaredNonDropped \subseteq DOMAIN inferred_measurement_configs
    /\ (hist.last_fit.done /\ hist.last_fit.raised # "") => ~_is_fit

\* C1 witness: a fit has completed with a fitted and a dropped measurement
C1_Witness ==
    /\ _is_fit
    /\ hist.processed = Measures
    /\ \E m \in DOMAIN InferredConfigs : ~is_dropped(InferredConfigs[m])
    /\ \E m \in DOMAIN InferredConfigs : is_dropped(InferredConfigs[m])

C3_OtherColumnsStillFitted ==
    (FitEnded /\ raised.type = "ValueError") =>
        \A m \in DeclaredNonDropped \ {raised.measure} : m \in hist.processed

\* C3 amended: an exception raised while fitting the metadata of one column
\* is re-raised as a ValueError that names the column, and it ends the
\* call: the loop has processed the measurements before that column and
\* none after it, the copy of the column is in inferred_measurement_configs,
\* and _is_fit is false.
C3_RaiseEndsFit ==
    (FitEnded /\ raised.type = "ValueError") =>
        /\ raised.measure \in DeclaredNonDropped
        /\ is_numeric(hist.declared0[DeclaredRef(raised.measure)])
        /\ hist.processed =
               {MeasureOrder[j] : j \in 1..(PositionOf(raised.measure) - 1)}
        /\ raised.measure \in DOMAIN inferred_measurement_configs
        /\ ~_is_fit

\* C3 witness: the fit of lab raised and the later measurement cat was not
\* processed
C3_Witness ==
    /\ FitEnded
    /\ raised = [type |-> "ValueError", measure |-> "lab"]
    /\ "cat" \in DeclaredNonDropped
    /\ "cat" \notin hist.processed
    /\ "cat" \notin DOMAIN inferred_measurement_configs

\* the rows of the source table of config that belong to subjects of the
\* 'train' split (and, for a dynamic measurement, to its event types)
TrainRowsOf(config) ==
    LET attr == CASE config.temporality = "DYNAMIC" -> "dynamic_measurements_df"
                  [] config.temporality = "STATIC" -> "subjects_df"
                  [] config.temporality = "FUNCTIONAL_TIME_DEPENDENT" -> "events_df"
    IN [cols |-> TableOf(attr).cols,
        rows |-> {r \in TableOf(attr).rows :
                     /\ r.subject_id \in split_subjects["train"]
                     /\ (config.temporality = "DYNAMIC"
                         /\ ~config.present_in_event_types.is_none)
                            => r.event_type \in config.present_in_event_types.types}]
\* the rows of the source table of the measure m after the step
SourceRowsAfter(m) ==
    IF heap[DeclaredRef(m)].temporality = "STATIC" THEN subjects_df'.rows
    ELSE IF heap[DeclaredRef(m)].temporality = "DYNAMIC"
    THEN dynamic_measurements_df'.rows
    ELSE events_df'.rows

\* C4: the config an iteration of fit_measurements stores is the one fitted
\* on the rows of 'train' subjects alone; an iteration of
\* transform_measurements for a measurement with a vocabulary leaves, in
\* the rows of every split, only null entries and elements of the vocabulary.
C4_FitTrainTransformAll ==
    [][/\ (pc.op = "fit" /\ pc'.i = pc.i + 1
           /\ ~is_dropped(heap[DeclaredRef(MeasureOrder[pc.i])])) =>
              heap'[InferredRef(MeasureOrder[pc.i])] =
                  FitOne(MeasureOrder[pc.i], heap[DeclaredRef(MeasureOrder[pc.i])],
                         TrainRowsOf(heap[DeclaredRef(MeasureOrder[pc.i])])).config
       /\ (pc.op = "transform" /\ pc'.op = "transform" /\ pc'.i = pc.i + 1
           /\ ~InferredConfigs[TransformOrder[pc.i]].vocabulary.is_none) =>
              \A r \in SourceRowsAfter(TransformOrder[pc.i]) :
                  \/ r[TransformOrder[pc.i]] = NoStr
                  \/ r[TransformOrder[pc.i]]
                         \in vocab_set(InferredConfigs[TransformOrder[pc.i]].vocabulary)
      ]_vars

\* C4 witness: the value of a held-out subject, unseen in training, has
\* been mapped to 'UNK'
C4_Witness ==
    /\ "cat" \in hist.transformed
    /\ heap[DeclaredRef("cat")].temporality = "STATIC"
    /\ \E r \in subjects_df.rows :
          /\ r.subject_id \in split_subjects["held_out"]
          /\ r.cat = "UNK"
    /\ \E r \in subjects_df.rows :
          /\ r.subject_id \in split_subjects["train"]
          /\ r.cat = "a"

\* C5: the declared MeasurementConfig objects equal their value at
\* construction in every reachable state.
C5_DeclaredNeverMutated ==
    \A m \in Measures : heap[DeclaredRef(m)] = hist.declared0[DeclaredRef(m)]

\* C5 witness: after a fit and a transform, an inferred config differs from
\* the declared one and a measurement has been dropped in the copy
C5_Witness ==
    /\ _is_fit
    /\ hist.last_transform.done /\ hist.last_transform.raised = ""
    /\ \E m \in DOMAIN InferredConfigs :
          /\ ~is_dropped(InferredConfigs[m])
          /\ InferredConfigs[m] # heap[DeclaredRef(m)]
    /\ \E m \in DOMAIN InferredConfigs :
          is_dropped(InferredConfigs[m]) /\ ~is_dropped(heap[DeclaredRef(m)])

\* C6: once _is_fit is true a read of measurement_configs returns the
\* configs, and these are exactly the entries of inferred_measurement_configs
\* that are not dropped.
C6_ReadsNonDroppedInferred ==
    /\ (_is_fit /\ read_result # NoRead) => read_result.kind = "configs"
    /\ read_result.kind = "configs" =>
          /\ DOMAIN read_result.configs =
                 {m \in DOMAIN inferred_measurement_configs :
                     ~is_dropped(heap[inferred_measurement_configs[m]])}
          /\ \A m \in DOMAIN read_result.configs :
                 read_result.configs[m] = heap[inferred_measurement_configs[m]]

\* C6 witness: a read after a completed fit returned a fitted config and
\* left out a dropped one and a declared one that was never copied
C6_Witness ==
    /\ read_result.kind = "configs"
    /\ read_result.configs # << >>
    /\ \E m \in DOMAIN InferredConfigs :
          is_dropped(InferredConfigs[m]) /\ m \notin DOMAIN read_result.configs
    /\ \E m \in Measures : m \notin DOMAIN inferred_measurement_configs

(***************************************************************************)
(* Properties of transform_measurements, checked under SpecTransform.      *)
(***************************************************************************)
\* the last two calls of transform_measurements both returned, with no fit
\* in between
TransformedTwice ==
    /\ hist.prev_transform.done /\ hist.prev_transform.raised = ""
    /\ hist.last_transform.done /\ hist.last_transform.raised = ""
    /\ hist.prev_transform.fits = hist.last_transform.fits
    /\ hist.prev_transform.configs = hist.last_transform.configs

FittedMetadataRows ==
    UNION {{InferredConfigs[m].measurement_metadata.rows[k] :
               k \in DOMAIN InferredConfigs[m].measurement_metadata.rows} :
           m \in {x \in DOMAIN InferredConfigs :
                     ~InferredConfigs[x].measurement_metadata.is_none}}
NoModelsConfigured ==
    self_config.outlier_detector_config.is_none /\ self_config.normalizer_config.is_none

\* the bounds of a fitted metadata row under which a value that went through
\* them once goes through them unchanged: the censor bounds are ordered and
\* inside the drop bounds, and an integer key, whose values are rounded
\* after the bounds, has no drop bound
StableBounds(b) ==
    /\ CensorOrdered(b)
    /\ CensorInsideDrop(b)
    /\ b.value_type = "integer" => ~HasDropBound(b)

C8_FitIdempotentMonotonic ==
    /\ (hist.prev_fit.done /\ hist.last_fit.done
        /\ hist.prev_fit.tables = hist.last_fit.tables) =>
           /\ hist.prev_fit.configs = hist.last_fit.configs
           /\ hist.prev_fit.raised = hist.last_fit.raised
    /\ {m \in DOMAIN InferredConfigs : ~is_dropped(InferredConfigs[m])}
           \subseteq DeclaredNonDropped

\* C8 witness: two fits in a row; the inferred configs hold a vocabulary
\* for one measurement and a measurement the fit dropped
C8_Witness ==
    /\ hist.prev_fit.done /\ hist.last_fit.done
    /\ hist.prev_fit.raised = "" /\ hist.last_fit.raised = ""
    /\ _is_fit
    /\ ~is_dropped(InferredConfigs["cat"]) /\ ~InferredConfigs["cat"].vocabulary.is_none
    /\ is_dropped(InferredConfigs["lab"])

\* ---- SpecWrite: one fit, one transform, over rows the transform skips -------
\* rows with a missing key and a value, and a measurement restricted to the
\* events of type 'A'
DynTablesWrite ==
    {DynTable(f) : f \in {g \in [1..NumDynRows -> [e : Events, key : {NoStr, "k1"},
                                                   val : {Null, Num(Unit), Num(2 * Unit)}]] :
                            /\ \A r \in 1..NumDynRows : g[r].e = ((r - 1) % NumSubjects) + 1
                            /\ g[1].key = "k1" /\ g[1].val # Null}}
LabEventTypesWrite == {NoEventTypes, [is_none |-> FALSE, types |-> {"A"}]}
SelfConfigsWrite ==
    {SelfConfig(NoneThr, NoneThr, NoneThr, NoneThr, odc, nzc) :
        odc \in {NoModelConfig, StddevCutoff}, nzc \in {NoModelConfig, StandardScaler}}

InitWrite ==
    InitDataset({"STATIC", "FUNCTIONAL_TIME_DEPENDENT"}, CatColumnsSmall, DynTablesWrite,
                {SplitWithTrain(Subjects), SplitWithTrain({1})}, SelfConfigsWrite,
                {NoMetadata}, LabEventTypesWrite,
                [fit |-> 1, transform |-> 1, reads |-> FALSE])

SpecWrite == InitWrite /\ [][NextFitTransform]_vars

(***************************************************************************)
(* Properties of the write-back of transform_measurements, checked under   *)
(* SpecWrite.                                                              *)
(***************************************************************************)
\* the table named attr after the step
TableAfter(attr) ==
    IF attr = "subjects_df" THEN subjects_df'
    ELSE IF attr = "events_df" THEN events_df'
    ELSE dynamic_measurements_df'
\* the ids of the rows of the frame that the iteration for the measure m
\* transforms: the source rows with a non-null entry of m
TransformedIds(m) ==
    {r[_get_source_df(InferredConfigs[m], FALSE).source_id] :
        r \in _drop_df_nulls(_get_source_df(InferredConfigs[m], FALSE).source_df, m).rows}
\* the step is an iteration of transform_measurements that wrote a table
WroteBack == pc.op = "transform" /\ pc'.op = "transform" /\ pc'.i = pc.i + 1

\* C11: an iteration of transform_measurements leaves the rows of the
\* owning table whose id is not in the transformed frame as they were, in
\* every column, and leaves the columns it does not update as they were in
\* every row.
C11_UnmatchedRowsUntouched ==
    [][WroteBack =>
          \A o \in TableOf(_get_source_df(InferredConfigs[TransformOrder[pc.i]],
                                          FALSE).source_attr).rows :
             \E n \in TableAfter(_get_source_df(InferredConfigs[TransformOrder[pc.i]],
                                                FALSE).source_attr).rows :
                /\ \A c \in DOMAIN o :
                      c \notin UpdatedCols(TransformOrder[pc.i],
                                           InferredConfigs[TransformOrder[pc.i]])
                         => n[c] = o[c]
                /\ o[_get_source_df(InferredConfigs[TransformOrder[pc.i]],
                                    FALSE).source_id]
                      \notin TransformedIds(TransformOrder[pc.i]) => n = o
      ]_vars

\* ---- SpecReconfig: the caller changes self.config between fit and transform -
\* self.config is a plain attribute (base 247): the caller replaces the
\* outlier detector configuration of a fitted dataset
SetOutlierDetectorConfig ==
    /\ pc.op = "idle"
    /\ _is_fit
    /\ calls.transform = 0
    /\ \E odc \in {NoModelConfig, StddevCutoff, UnknownModel} :
          /\ odc # self_config.outlier_detector_config
          /\ self_config' = [self_config EXCEPT !.outlier_detector_config = odc]
    /\ UNCHANGED <<_is_fit, pc, raised, read_result, calls, hist, tableVars, fitVars,
                   split_subjects, limits, boundVars>>

NextReconfig ==
    \/ fit_measurements_begin
    \/ fit_measurements_step
    \/ fit_measurements_end
    \/ SetOutlierDetectorConfig
    \/ transform_measurements_begin
    \/ transform_measurements_step
    \/ transform_measurements_end

InitReconfig ==
    InitDataset({"STATIC", "FUNCTIONAL_TIME_DEPENDENT"}, CatColumnsSmall, DynTablesSmall,
                {SplitWithTrain(Subjects), SplitWithTrain({1})}, SelfConfigsWrite,
                {NoMetadata}, {NoEventTypes},
                [fit |-> 1, transform |-> 1, reads |-> FALSE])

SpecReconfig == InitReconfig /\ [][NextReconfig]_vars

(***************************************************************************)
(* Properties of a failing transform_measurements, checked under           *)
(* SpecReconfig.                                                           *)
(***************************************************************************)
\* the last call was transform_measurements and it ended with the
\* ValueError of base 578
TransformRaised ==
    pc.op = "idle" /\ hist.last_call = "transform" /\ raised.type = "ValueError"
\* the measures that come before m in the iteration order of the transform
TransformedBefore(m) ==
    {TransformOrder[j] : j \in {i \in 1..Len(TransformOrder) :
                                   \E k \in (i + 1)..Len(TransformOrder) :
                                      TransformOrder[k] = m}}

\* C12: an exception raised while transforming one column is re-raised as a
\* ValueError that names the column, and it ends the call: the measurements
\* before the column in the iteration order have been transformed, the
\* column and every measurement after it have not, and the tables are as
\* they were when the exception was raised.
C12_RaiseEndsTransform ==
    TransformRaised =>
        /\ raised.measure \in DOMAIN measurement_configs.configs
        /\ is_numeric(InferredConfigs[raised.measure])
        /\ hist.transformed = TransformedBefore(raised.measure)
        /\ hist.last_transform.done /\ hist.last_transform.raised = "ValueError"
        /\ tableVars = hist.last_transform.tables

\* C12 witness: the transform of lab raised; cat, later in the order, was
\* not transformed and its column still holds a value outside its vocabulary
C12_Witness ==
    /\ TransformRaised
    /\ raised.measure = "lab"
    /\ "cat" \in DOMAIN measurement_configs.configs
    /\ "cat" \notin hist.transformed
    /\ heap[DeclaredRef("cat")].temporality = "STATIC"
    /\ \E r \in subjects_df.rows :
          r.cat # NoStr /\ r.cat \notin vocab_set(InferredConfigs["cat"].vocabulary)

(***************************************************************************)
(* Properties of the registry of preprocessors, checked under Spec.        *)
(***************************************************************************)
\* self.config names a preprocessor class that PREPROCESSORS does not hold
UnregisteredClass ==
    \E c \in {self_config.outlier_detector_config, self_config.normalizer_config} :
        ~c.is_none /\ c.cls \notin PREPROCESSORS

ZeroTrainObservations(m) ==
    /\ HasSplit("train")
    /\ m \in TrainRowsOf(heap[DeclaredRef(m)]).cols
          => \A r \in TrainRowsOf(heap[DeclaredRef(m)]).rows : r[m] = NoStr

\* C14: a measurement that fit_measurements has processed and that has no
\* non-null observation in the rows of the 'train' subjects is dropped in
\* its inferred config, whatever min_valid_column_observations is.
C14_ZeroTrainObservationsDropped ==
    (hist.last_call = "fit" /\ calls.transform = 0) =>
        \A m \in hist.processed \cap DeclaredNonDropped :
            ZeroTrainObservations(m) => is_dropped(InferredConfigs[m])

\* ---- the unified vocabulary (base 669-754) --------------------------------
\* {el: i for i, el in enumerate(seq)}: the position of every element,
\* counted from 0; of two equal elements the later position is kept
Enumerate(seq) ==
    [v \in {seq[i] : i \in 1..Len(seq)} |->
        (CHOOSE i \in 1..Len(seq) : seq[i] = v /\ \A j \in 1..Len(seq) : seq[j] = v => j <= i) - 1]

\* Vocabulary.idxmap: 'UNK', the first element, is the index 0 that stands
\* for a symbol missing from the vocabulary; the observed symbols count from 1
idxmap(v) == Enumerate(v.vocabulary)

\* self.event_types (polars 320-323): the event types of events_df by
\* descending number of events
event_types ==
    IF events_df = << >> THEN << >>
    ELSE LET types == {r.event_type : r \in events_df.rows}
         IN SortByFrequency(types,
                [t \in types |-> Cardinality({r \in events_df.rows : r.event_type = t})])

\* the properties below read self.measurement_configs; configs is its value
measurement_idxmaps(configs) ==
    [m \in {x \in DOMAIN configs : ~configs[x].vocabulary.is_none}
        |-> idxmap(configs[m].vocabulary)]
    @@ ("event_type" :> Enumerate(event_types))

measurement_vocabs(configs) ==
    [m \in {x \in DOMAIN configs : ~configs[x].vocabulary.is_none}
        |-> configs[m].vocabulary.vocabulary]
    @@ ("event_type" :> event_types)

\* sorted(...) over the measurement names of the model
SortedNames == <<"cat", "dropped", "lab", "not_present">>
RECURSIVE sorted(_, _)
sorted(keys, i) ==
    IF i > Len(SortedNames) THEN << >>
    ELSE (IF SortedNames[i] \in keys THEN <<SortedNames[i]>> ELSE << >>)
         \o sorted(keys, i + 1)

RECURSIVE Reversed(_)
Reversed(seq) == IF seq = << >> THEN << >> ELSE Reversed(Tail(seq)) \o <<Head(seq)>>
\* mutant: the measurement names in descending order
UnifiedMeasurementsVocabDescending(configs) ==
    <<"event_type">> \o Reversed(sorted(DOMAIN configs, 1))
unified_measurements_vocab(configs) == <<"event_type">> \o sorted(DOMAIN configs, 1)

unified_measurements_idxmap(configs) ==
    LET vocab == unified_measurements_vocab(configs)
    IN [m \in {vocab[i] : i \in 1..Len(vocab)} |-> Enumerate(vocab)[m] + 1]

RECURSIVE OffsetsCountingKeys(_, _, _, _)
\* mutant: every key takes one slot, whatever the length of its vocabulary
OffsetsCountingKeys(keys, i, curr_offset, vocabs) ==
    IF i > Len(keys) THEN << >>
    ELSE OffsetsCountingKeys(keys, i + 1, curr_offset + 1, vocabs)
         @@ (keys[i] :> curr_offset)
RECURSIVE OffsetsLoop(_, _, _, _)
\* the loop of unified_vocabulary_offsets (740-743) from the i-th key on
OffsetsLoop(keys, i, curr_offset, vocabs) ==
    IF i > Len(keys) THEN << >>
    ELSE OffsetsLoop(keys, i + 1,
                     curr_offset + (IF keys[i] \in DOMAIN vocabs
                                    THEN Len(vocabs[keys[i]]) ELSE 1),
                     vocabs)
         @@ (keys[i] :> curr_offset)

unified_vocabulary_offsets(configs) ==
    OffsetsLoop(unified_measurements_vocab(configs), 1, 1, measurement_vocabs(configs))

UnifiedIdxmapOf(offsets, idxmaps) ==
    [m \in DOMAIN offsets |->
        IF m \in DOMAIN idxmaps
        THEN [v \in DOMAIN idxmaps[m] |-> idxmaps[m][v] + offsets[m]]
        ELSE (m :> offsets[m])]

unified_vocabulary_idxmap(configs) ==
    UnifiedIdxmapOf(unified_vocabulary_offsets(configs), measurement_idxmaps(configs))

\* the (measurement key, symbol) pairs of a unified idxmap and their indices
UnifiedPairs(u) ==
    {p \in (DOMAIN u) \X UNION {DOMAIN u[k] : k \in DOMAIN u} : p[2] \in DOMAIN u[p[1]]}
InjectiveFromOne(u, pairs) ==
    /\ \A p, q \in pairs : u[p[1]][p[2]] = u[q[1]][q[2]] => p = q
    /\ {u[p[1]][p[2]] : p \in pairs} = 1..Cardinality(pairs)

SlotsOf(m, vocabs) == IF m \in DOMAIN vocabs THEN Len(vocabs[m]) ELSE 1
NameRank(m) == CHOOSE i \in 1..Len(SortedNames) : SortedNames[i] = m
OffsetsChain(keys, offs, vocabs, configs) ==
    /\ keys[1] = "event_type" /\ offs["event_type"] = 1
    /\ {keys[i] : i \in 2..Len(keys)} = DOMAIN configs
    /\ DOMAIN offs = {"event_type"} \cup DOMAIN configs
    /\ \A i \in 2..(Len(keys) - 1) : NameRank(keys[i]) < NameRank(keys[i + 1])
    /\ \A i \in 1..(Len(keys) - 1) :
          offs[keys[i + 1]] = offs[keys[i]] + SlotsOf(keys[i], vocabs)

\* C16: in every fitted state - after a first fit and after a repeated one -
\* unified_vocabulary_offsets gives 'event_type' the offset 1 and lists the
\* non-dropped measurements after it in ascending order of their names; the
\* offset of each key is the offset of the key before it plus the length of
\* that key's vocabulary, or plus 1 when that key has no vocabulary.
C16_OffsetsFollowSortedKeys ==
    (_is_fit /\ pc.op = "idle") =>
        \E configs \in {measurement_configs.configs} :
            OffsetsChain(unified_measurements_vocab(configs),
                         unified_vocabulary_offsets(configs),
                         measurement_vocabs(configs), configs)

\* C16 witness: after the second fit both cat and lab are non-dropped, cat
\* with a vocabulary of three elements, so that lab starts five indices
\* after the first event type
C16_Witness ==
    /\ _is_fit /\ pc.op = "idle" /\ calls.fit = 2
    /\ DOMAIN measurement_configs.configs = {"cat", "lab"}
    /\ unified_vocabulary_offsets(measurement_configs.configs)
          = [event_type |-> 1, cat |-> 3, lab |-> 6]

\* ---- melt_df (polars 888-938) ---------------------------------------------
\* the measurements each table is melted over (polars 963-969)
MeasuresOf(temporality, configs) ==
    {m \in DOMAIN configs : configs[m].temporality = temporality}

\* idx_present_expr (901-905) for the cell of row r in column m
IdxPresent(r, m, vocabs) ==
    /\ r[m] # NoStr
    /\ m \in DOMAIN vocabs => \E i \in 1..Len(vocabs[m]) : vocabs[m][i] = r[m]
\* idx_value_expr (903, 906) for a cell that is present
IdxValue(r, m, vocabs, u) == IF m \in DOMAIN vocabs THEN u[m][r[m]] ELSE u[m][m]
\* val_expr (911-918); the model has no univariate regression measurement
ValExpr(r, m, configs) ==
    IF m # "event_type" /\ configs[m].modality = "MULTIVARIATE_REGRESSION"
    THEN r[configs[m].values_column] ELSE Null

\* the long form of source_df: one row for every cell that is present.  A
\* data frame is a list of rows; row_id, the primary id of the table, stands
\* for the position of the row the long row was made from.
melt_df(source_df, row_id, id_cols, measures, configs, vocabs, u, mu) ==
    {[row |-> r[row_id], ids |-> [c \in id_cols |-> r[c]],
      measurement |-> m, measurement_index |-> mu[m],
      index |-> IdxValue(r, m, vocabs, u), value |-> ValExpr(r, m, configs)] :
        <<r, m>> \in {x \in source_df.rows \X measures : IdxPresent(x[1], x[2], vocabs)}}

\* the three melt_df calls of build_DL_cached_representation (973-985)
StaticLong(configs, vocabs, u, mu) ==
    melt_df(subjects_df, "subject_id", {"subject_id"},
            MeasuresOf("STATIC", configs), configs, vocabs, u, mu)
EventLong(configs, vocabs, u, mu) ==
    melt_df(events_df, "event_id", {"subject_id", "timestamp", "event_id"},
            {"event_type"} \cup MeasuresOf("FUNCTIONAL_TIME_DEPENDENT", configs),
            configs, vocabs, u, mu)
DynamicLong(configs, vocabs, u, mu) ==
    melt_df(dynamic_measurements_df, "measurement_id", {"event_id"},
            MeasuresOf("DYNAMIC", configs), configs, vocabs, u, mu)

\* the (measurement key, symbol) pair an index of the unified vocabulary
\* stands for
Decode(u, index) ==
    IF \E p \in UnifiedPairs(u) : u[p[1]][p[2]] = index
    THEN CHOOSE p \in UnifiedPairs(u) : u[p[1]][p[2]] = index
    ELSE <<"", "">>

\* the cells of the table melted over the measures round-trip: a present
\* cell has a long row whose index decodes to the cell's measurement and
\* symbol, an absent cell a long row of index 0
RoundTrip(table, row_id, measures, long, vocabs, u) ==
    \A r \in table.rows, m \in measures :
        IF IdxPresent(r, m, vocabs)
        THEN \E o \in long : /\ o.row = r[row_id] /\ o.measurement = m
                             /\ Decode(u, o.index) = <<m, r[m]>>
        ELSE \E o \in long : o.row = r[row_id] /\ o.measurement = m /\ o.index = 0
PresentRoundTrip(table, row_id, measures, long, vocabs, u) ==
    \A r \in table.rows, m \in measures :
        IdxPresent(r, m, vocabs) =>
            \E o \in long : /\ o.row = r[row_id] /\ o.measurement = m
                            /\ Decode(u, o.index) = <<m, r[m]>>
AbsentHasNoRow(table, row_id, measures, long, vocabs) ==
    \A r \in table.rows, m \in measures :
        ~IdxPresent(r, m, vocabs) =>
            ~\E o \in long : o.row = r[row_id] /\ o.measurement = m

\* C17: on a fitted dataset, every present cell of the three tables is
\* encoded by melt_df to an index of the unified vocabulary that decodes to
\* the cell's measurement and symbol, and every absent cell is encoded to
\* the index 0.
C17_RoundTrip ==
    (_is_fit /\ pc.op = "idle") =>
        \E configs \in {measurement_configs.configs} :
        \E vocabs \in {measurement_vocabs(configs)} :
        \E u \in {unified_vocabulary_idxmap(configs)} :
        \E mu \in {unified_measurements_idxmap(configs)} :
            /\ RoundTrip(subjects_df, "subject_id", MeasuresOf("STATIC", configs),
                         StaticLong(configs, vocabs, u, mu), vocabs, u)
            /\ RoundTrip(events_df, "event_id",
                         {"event_type"} \cup MeasuresOf("FUNCTIONAL_TIME_DEPENDENT", configs),
                         EventLong(configs, vocabs, u, mu), vocabs, u)
            /\ RoundTrip(dynamic_measurements_df, "measurement_id",
                         MeasuresOf("DYNAMIC", configs),
                         DynamicLong(configs, vocabs, u, mu), vocabs, u)

\* what holds instead: the present cells of the measurements that have a
\* vocabulary round-trip, and an absent cell has no long row at all
VocabularyCellsRoundTrip ==
    (_is_fit /\ pc.op = "idle") =>
        \E configs \in {measurement_configs.configs} :
        \E vocabs \in {measurement_vocabs(configs)} :
        \E u \in {unified_vocabulary_idxmap(configs)} :
        \E mu \in {unified_measurements_idxmap(configs)} :
            /\ PresentRoundTrip(subjects_df, "subject_id",
                         MeasuresOf("STATIC", configs) \cap DOMAIN vocabs,
                         StaticLong(configs, vocabs, u, mu), vocabs, u)
            /\ PresentRoundTrip(events_df, "event_id",
                         ({"event_type"} \cup MeasuresOf("FUNCTIONAL_TIME_DEPENDENT", configs))
                             \cap DOMAIN vocabs,
                         EventLong(configs, vocabs, u, mu), vocabs, u)
            /\ PresentRoundTrip(dynamic_measurements_df, "measurement_id",
                         MeasuresOf("DYNAMIC", configs) \cap DOMAIN vocabs,
                         DynamicLong(configs, vocabs, u, mu), vocabs, u)
            /\ AbsentHasNoRow(subjects_df, "subject_id", MeasuresOf("STATIC", configs),
                         StaticLong(configs, vocabs, u, mu), vocabs)
            /\ AbsentHasNoRow(events_df, "event_id",
                         {"event_type"} \cup MeasuresOf("FUNCTIONAL_TIME_DEPENDENT", configs),
                         EventLong(configs, vocabs, u, mu), vocabs)
            /\ AbsentHasNoRow(dynamic_measurements_df, "measurement_id",
                         MeasuresOf("DYNAMIC", configs),
                         DynamicLong(configs, vocabs, u, mu), vocabs)

\* ---- build_DL_cached_representation (polars 940-1009) ---------------------
\* a column of the outer join that has no partner row
NullSide == [is_null |-> TRUE, rows |-> {}]
NoId == -1   \* a null subject_id or timestamp

\* 973-978: the long static rows by subject; a list column is written as the
\* set of the long rows it was aggregated from
StaticData(static_long) ==
    [s \in {o.ids.subject_id : o \in static_long} |->
        [is_null |-> FALSE, rows |-> {o \in static_long : o.ids.subject_id = s}]]

\* 991-997: the long event and dynamic rows of one event; timestamp and
\* subject_id are null in the dynamic rows, drop_nulls().first() takes them
\* from an event row
EventGroup(e, event_long, dynamic_long) ==
    LET of_event == {o \in event_long : o.ids.event_id = e}
    IN [event_id |-> e,
        timestamp |-> IF of_event = {} THEN NoId
                      ELSE (CHOOSE o \in of_event : TRUE).ids.timestamp,
        subject_id |-> IF of_event = {} THEN NoId
                       ELSE (CHOOSE o \in of_event : TRUE).ids.subject_id,
        rows |-> of_event \cup {o \in dynamic_long : o.ids.event_id = e}]

RECURSIVE DescendingByTime(_)
\* mutant: the groups of a subject by descending timestamp
DescendingByTime(G) ==
    IF G = {} THEN << >>
    ELSE LET g == CHOOSE x \in G : \A y \in G :
                      \/ x.timestamp > y.timestamp
                      \/ x.timestamp = y.timestamp /\ x.event_id >= y.event_id
         IN <<g>> \o DescendingByTime(G \ {g})
RECURSIVE SortByTime(_)
\* 998: sort('subject_id', 'timestamp') within one subject; events of equal
\* timestamp are listed by event_id
SortByTime(G) ==
    IF G = {} THEN << >>
    ELSE LET g == CHOOSE x \in G : \A y \in G :
                      \/ x.timestamp < y.timestamp
                      \/ x.timestamp = y.timestamp /\ x.event_id <= y.event_id
         IN <<g>> \o SortByTime(G \ {g})

MinOf(S) == CHOOSE x \in S : \A y \in S : x <= y

\* 998-1004: the aggregate of one subject over its sorted events
SubjectAgg(sorted_groups) ==
    [is_null |-> FALSE,
     start_time |-> sorted_groups[1].timestamp,
     time |-> [i \in 1..Len(sorted_groups) |->
                  sorted_groups[i].timestamp
                  - MinOf({sorted_groups[j].timestamp : j \in 1..Len(sorted_groups)})],
     rows |-> [i \in 1..Len(sorted_groups) |-> sorted_groups[i].rows]]

EventData(groups) ==
    [s \in {g.subject_id : g \in groups} |->
        SubjectAgg(SortByTime({g \in groups : g.subject_id = s}))]

\* 1006: static_data.join(event_data, on='subject_id', how='outer')
OuterJoin(static_data, event_data) ==
    {[subject_id |-> s,
      static |-> IF s \in DOMAIN static_data THEN static_data[s] ELSE NullSide,
      dynamic |-> IF s \in DOMAIN event_data THEN event_data[s] ELSE NullSide] :
        s \in DOMAIN static_data \cup DOMAIN event_data}

BuildFromLong(static_long, event_long, dynamic_long) ==
    OuterJoin(StaticData(static_long),
              EventData({EventGroup(e, event_long, dynamic_long) :
                            e \in {o.ids.event_id : o \in event_long \cup dynamic_long}}))

BuildFrom(configs, vocabs, u, mu) ==
    BuildFromLong(StaticLong(configs, vocabs, u, mu), EventLong(configs, vocabs, u, mu),
                  DynamicLong(configs, vocabs, u, mu))

build_DL_cached_representation(configs) ==
    BuildFrom(configs, measurement_vocabs(configs), unified_vocabulary_idxmap(configs),
              unified_measurements_idxmap(configs))

\* the call: reading self.measurement_configs asserts the flag (base 646)
BuildDLCachedRepresentation ==
    /\ pc.op = "idle"
    /\ read_result = NoRead
    /\ read_result' =
          IF ~_is_fit THEN measurement_configs
          ELSE [kind |-> "cached_df", configs |-> << >>,
                out |-> build_DL_cached_representation(measurement_configs.configs)]
    /\ UNCHANGED <<_is_fit, pc, raised, calls, hist, tableVars, fitVars, inputVars,
                   boundVars>>

\* ---- SpecDL: fit, transform and the cached representation ------------------
MaxEvents == 2
MaxTime == 2
EventKeys == [subject_id : Subjects, timestamp : 1..MaxTime, event_type : {"A", "B"}]
\* agg_by_time_type and sort_events (polars 286-311): one event for every
\* (subject_id, timestamp, event_type), numbered from 0 in the order of
\* subject_id and timestamp
EventBefore(x, y) ==
    \/ x.subject_id < y.subject_id
    \/ x.subject_id = y.subject_id /\ x.timestamp < y.timestamp
    \/ x.subject_id = y.subject_id /\ x.timestamp = y.timestamp
       /\ x.event_type = "A" /\ y.event_type = "B"
EventIdOf(k, K) == Cardinality({x \in K : EventBefore(x, k)})
EventsTableDL(temporality, cat_col, K) ==
    [cols |-> {"event_id", "subject_id", "timestamp", "event_type"}
              \cup (IF temporality = "FUNCTIONAL_TIME_DEPENDENT" THEN {"cat"} ELSE {}),
     rows |-> {[event_id |-> EventIdOf(k, K), subject_id |-> k.subject_id,
                timestamp |-> k.timestamp, event_type |-> k.event_type,
                cat |-> IF temporality = "FUNCTIONAL_TIME_DEPENDENT"
                        THEN cat_col[k.subject_id] ELSE NoStr] : k \in K}]
\* the measurement r belongs to one of the events; its value is 1 or 2
DynTableDL(K, second_val) ==
    [cols |-> {"measurement_id", "event_id", "subject_id", "event_type", "lab", "lab_val"},
     rows |-> {[measurement_id |-> r, event_id |-> EventIdOf(k, K),
                subject_id |-> k.subject_id, event_type |-> k.event_type,
                lab |-> "k1", lab_val |-> IF r = 1 THEN Num(Unit) ELSE second_val,
                lab_is_inlier |-> "N"] :
               <<r, k>> \in {x \in (1..NumDynRows) \X K :
                               EventIdOf(x[2], K) = (x[1] - 1) % Cardinality(K)}}]

InitDL ==
    /\ \E tcat \in {"STATIC", "FUNCTIONAL_TIME_DEPENDENT"}, cat_col \in CatColumnsSmall,
          K \in {x \in SUBSET EventKeys : Cardinality(x) <= MaxEvents},
          second_val \in {Num(Unit), Num(2 * Unit)} :
          /\ subjects_df = SubjectsTable(tcat, cat_col)
          /\ events_df = EventsTableDL(tcat, cat_col, K)
          /\ dynamic_measurements_df = DynTableDL(K, second_val)
          /\ heap = DeclaredHeap(tcat, NoMetadata, NoEventTypes)
    /\ split_subjects \in {Unsplit, SplitWithTrain({1})}
    /\ self_config \in {SelfConfig(NoneThr, NoneThr, mu, NoneThr, NoModelConfig, NoModelConfig) :
                           mu \in {NoneThr, Count(3)}}
    /\ inferred_measurement_configs = << >>
    /\ _is_fit = FALSE
    /\ pc = Idle
    /\ raised = [type |-> "", measure |-> ""]
    /\ read_result = NoRead
    /\ calls = [fit |-> 0, transform |-> 0]
    /\ limits = [fit |-> 1, transform |-> 1, reads |-> FALSE]
    /\ hist = [declared0 |-> heap, processed |-> {}, transformed |-> {},
               last_call |-> "",
               last_fit |-> NoSnapshot, prev_fit |-> NoSnapshot,
               last_transform |-> NoSnapshot, prev_transform |-> NoSnapshot]
    /\ bp_args = << >>
    /\ bp_result = [done |-> TRUE, out |-> Null]

NextDL ==
    \/ fit_measurements_begin
    \/ fit_measurements_step
    \/ fit_measurements_end
    \/ transform_measurements_begin
    \/ transform_measurements_step
    \/ transform_measurements_end
    \/ BuildDLCachedRepresentation

SpecDL == InitDL /\ [][NextDL]_vars

\* the subject s has a row of the cached representation
RowsOfSubject(s) == {o \in read_result.out : o.subject_id = s}
HasEvents(s) == \E r \in events_df.rows : r.subject_id = s

\* C18: the cached representation has exactly one row for every subject of
\* the subjects table; the dynamic side of a subject without events is null
\* or empty, and so is the static side of a subject without a present static
\* attribute.
C18_EverySubjectHasRow ==
    read_result.kind = "cached_df" =>
        \A s \in {r.subject_id : r \in subjects_df.rows} :
            /\ Cardinality(RowsOfSubject(s)) = 1
            /\ \A o \in RowsOfSubject(s) :
                  /\ ~HasEvents(s) => o.dynamic.rows \in {{}, << >>}
                  /\ o.static.is_null => o.static.rows = {}

\* what holds instead: a subject that has an event or a present static
\* attribute has exactly one row, a subject that has neither has none
SubjectsOfEitherSideHaveRow ==
    read_result.kind = "cached_df" =>
        \A s \in {r.subject_id : r \in subjects_df.rows} :
            Cardinality(RowsOfSubject(s)) =
                IF HasEvents(s) \/ \E o \in read_result.out :
                                      o.subject_id = s /\ ~o.static.is_null
                THEN 1 ELSE 0

\* C19: in every row of the cached representation that has events, 'time'
\* starts at 0 and never decreases, and start_time is the earliest timestamp
\* of the subject's events.
C19_TimeFromZeroNonDecreasing ==
    read_result.kind = "cached_df" =>
        \A o \in read_result.out :
            ~o.dynamic.is_null =>
                /\ Len(o.dynamic.time) >= 1
                /\ o.dynamic.time[1] = 0
                /\ \A i, j \in 1..Len(o.dynamic.time) :
                      i <= j => o.dynamic.time[i] <= o.dynamic.time[j]
                /\ o.dynamic.start_time
                      = MinOf({r.timestamp : r \in {x \in events_df.rows :
                                                      x.subject_id = o.subject_id}})

\* C19 witness: a subject with two events at different timestamps, the
\* first of them later than the earliest timestamp of the table
C19_Witness ==
    /\ read_result.kind = "cached_df"
    /\ \E o \in read_result.out :
          /\ ~o.dynamic.is_null
          /\ o.dynamic.time = <<0, 1>>
          /\ o.dynamic.start_time = 1

\* ---- SpecScenario: one fit over a training split of six values -------------
\* the values of the key k1 in the rows of subject 1, the training split
ScenarioValues == <<1, 1, 2, 2, 2, 3>>
\* the rows of subject 2, outside the training split, hold any key and value
DynTablesScenario ==
    {[cols |-> {"measurement_id", "event_id", "subject_id", "event_type", "lab", "lab_val"},
      rows |-> {DynRow(r, 1, "k1", Num(ScenarioValues[r] * Unit)) :
                   r \in 1..Len(ScenarioValues)}
               \cup {DynRow(Len(ScenarioValues) + r, 2, f[r].key, f[r].val) :
                        r \in 1..NumDynRows}] :
        f \in [1..NumDynRows -> [key : {NoStr, "k1", "k2"}, val : RawVals]]}

\* min_unique_numerical_observations is the proportion 2,
\* min_true_float_frequency the proportion 0.9; no other threshold is set
InitScenario ==
    InitDataset({"STATIC", "FUNCTIONAL_TIME_DEPENDENT"}, CatColumnsSmall, DynTablesScenario,
                {SplitWithTrain({1})},
                {SelfConfig(NoneThr, NoneThr, Prop(2, 1), Prop(9, 10),
                            NoModelConfig, NoModelConfig)},
                {NoMetadata}, {NoEventTypes},
                [fit |-> 1, transform |-> 0, reads |-> FALSE])

SpecScenario == InitScenario /\ [][NextFit]_vars

\* the number of observations the vocabulary v holds for the symbol s
CountIn(v, s) ==
    IF \E i \in 1..Len(v.vocabulary) : v.vocabulary[i] = s
    THEN v.obs_counts[CHOOSE i \in 1..Len(v.vocabulary) : v.vocabulary[i] = s]
    ELSE 0

\* C20: after the fit over the training values 1, 1, 2, 2, 2, 3 of the key
\* k1, with min_unique_numerical_observations the proportion 2 and
\* min_true_float_frequency 0.9, the value type of k1 is CATEGORICAL_INTEGER
\* and the vocabulary holds k1__EQ_1, k1__EQ_2 and k1__EQ_3 with the
\* frequencies 2/6, 3/6 and 1/6.
C20_ScenarioCategoricalInteger ==
    (_is_fit /\ pc.op = "idle") =>
        \E c \in {InferredConfigs["lab"]} :
            /\ ~is_dropped(c)
            /\ c.measurement_metadata.rows["k1"].value_type = "categorical_integer"
            /\ ~c.vocabulary.is_none
            /\ vocab_set(c.vocabulary) = {"UNK", "k1__EQ_1", "k1__EQ_2", "k1__EQ_3"}
            /\ VocabTotal(c.vocabulary) = 6
            /\ CountIn(c.vocabulary, "k1__EQ_1") = 2
            /\ CountIn(c.vocabulary, "k1__EQ_2") = 3
            /\ CountIn(c.vocabulary, "k1__EQ_3") = 1

\* C20 witness: the fit is over; a row outside the training split holds
\* another key
C20_Witness ==
    /\ _is_fit /\ pc.op = "idle" /\ calls.fit = 1
    /\ \E r \in dynamic_measurements_df.rows : r.subject_id = 2 /\ r.lab = "k2"
    /\ ~InferredConfigs["lab"].vocabulary.is_none

\* ---- _validate_id_col (polars 151-184) -------------------------------------
\* An id column is a dtype and a list of values; a value is a number of
\* 1/Unit, so that n stands for n / Unit, integral iff Unit divides n.
MaxIdVal == 1
IdVals == (0 - (MaxIdVal * Unit + 1))..(MaxIdVal * Unit + 1)
IsIntegral(n) == n % Unit = 0
IdColumns ==
    {c \in [dtype : {"Float64", "Int64", "UInt64", "Utf8"}, vals : [1..2 -> IdVals]] :
        /\ c.dtype = "Int64" => \A i \in 1..2 : IsIntegral(c.vals[i])
        /\ c.dtype = "UInt64" => \A i \in 1..2 : IsIntegral(c.vals[i]) /\ c.vals[i] >= 0}

\* get_smallest_valid_int_type (polars 46-52) of a number of units; the
\* tests against 2^32 - 1 and 2^64 - 1 lie beyond the numbers of the model
get_smallest_valid_int_type(num) ==
    IF num < (2^8 - 1) * Unit THEN "UInt8"
    ELSE IF num < (2^16 - 1) * Unit THEN "UInt16"
    ELSE "UInt32"

MaxOf(S) == CHOOSE x \in S : \A y \in S : x >= y

\* id_col.cast(dt) to an unsigned type (182): the fraction is cut off
\* towards zero; a value that is then out of range makes the strict cast fail
CastToUnsigned(n) == IF n > 0 - Unit THEN (IF n >= 0 THEN n \div Unit ELSE 0) ELSE -1
CastIdCol(vals, dt) ==
    IF \E i \in 1..Len(vals) : CastToUnsigned(vals[i]) < 0
    THEN [raises |-> "ComputeError", vals |-> << >>, dt |-> ""]
    ELSE [raises |-> "", vals |-> [i \in 1..Len(vals) |-> CastToUnsigned(vals[i])], dt |-> dt]

\* 166-177: the checks that raise ValueError
IdColCheckRaises(id_col) ==
    LET vals == id_col.vals
        unique == \A i, j \in 1..Len(vals) : vals[i] = vals[j] => i = j
        all_round == \A i \in 1..Len(vals) : IsIntegral(vals[i])
        all_nonneg == \A i \in 1..Len(vals) : vals[i] >= 0
    IN IF ~unique THEN TRUE
       ELSE CASE id_col.dtype = "Float64" -> (~all_round) /\ all_nonneg
              [] id_col.dtype = "Int64" -> ~all_nonneg
              [] id_col.dtype = "UInt64" -> FALSE
              [] OTHER -> TRUE

_validate_id_col(id_col) ==
    IF IdColCheckRaises(id_col) THEN [raises |-> "ValueError", vals |-> << >>, dt |-> ""]
    ELSE CastIdCol(id_col.vals,
                   get_smallest_valid_int_type(MaxOf({id_col.vals[i] : i \in 1..Len(id_col.vals)})))

\* ---- SpecValidate: _validate_id_col over one id column ---------------------
InitValidate ==
    /\ bp_args \in IdColumns
    /\ bp_result = [done |-> FALSE, out |-> Null]
    /\ self_config = << >> /\ heap = << >> /\ inferred_measurement_configs = << >>
    /\ subjects_df = << >> /\ events_df = << >> /\ dynamic_measurements_df = << >>
    /\ split_subjects = << >> /\ _is_fit = FALSE /\ pc = << >> /\ raised = << >>
    /\ read_result = << >> /\ calls = << >> /\ limits = << >> /\ hist = << >>

CallValidateIdCol ==
    /\ ~bp_result.done
    /\ bp_result' = [done |-> TRUE, out |-> _validate_id_col(bp_args)]
    /\ UNCHANGED <<bp_args, self_config, heap, inferred_measurement_configs,
                   subjects_df, events_df, dynamic_measurements_df, split_subjects,
                   _is_fit, pc, raised, read_result, calls, limits, hist>>

NextValidate == CallValidateIdCol

SpecValidate == InitValidate /\ [][NextValidate]_vars

\* the id column holds a repeated value, or a value that is not a
\* non-negative integer
BadIdColumn(id_col) ==
    \/ \E i, j \in 1..Len(id_col.vals) : i # j /\ id_col.vals[i] = id_col.vals[j]
    \/ \E i \in 1..Len(id_col.vals) : id_col.vals[i] < 0 \/ ~IsIntegral(id_col.vals[i])

\* C21: the validation of an id column that is not unique, or that holds a
\* negative or a non-integral value, ends in an error, whatever the dtype of
\* the column.
C21_BadIdColumnRaises ==
    (bp_result.done /\ bp_args.dtype \in {"Float64", "Int64", "UInt64"}
        /\ BadIdColumn(bp_args)) => bp_result.out.raises # ""

\* what holds instead: the check itself raises for every such column except
\* a Float column that holds a negative value
BadIdColumnRaisesUnlessNegativeFloat ==
    (bp_result.done /\ BadIdColumn(bp_args)) =>
        \/ bp_result.out.raises = "ValueError"
        \/ /\ bp_args.dtype = "Float64"
           /\ \E i \in 1..Len(bp_args.vals) : bp_args.vals[i] < 0

\* ---- split (base 304-350) ---------------------------------------------------
\* A split fraction is a number of 1/FracDen.
FracDen == 4
MaxSplitFracs == 3
MaxSplitSubjects == 3
MaxSplitCalls == 1
SplitFracLists ==
    {f \in UNION {[1..n -> 0..FracDen] : n \in 1..MaxSplitFracs} :
        SumOver(DOMAIN f, f) <= FracDen}

\* 329: the remainder is tracked in an extra split at the end of the list
WithRemainder(split_fracs) ==
    IF SumOver(DOMAIN split_fracs, split_fracs) < FracDen
    THEN Append(split_fracs, FracDen - SumOver(DOMAIN split_fracs, split_fracs))
    ELSE split_fracs
\* 331-334: the default names
DefaultSplitNames(n) ==
    IF n = 2 THEN <<"train", "held_out">>
    ELSE IF n = 3 THEN <<"train", "tuning", "held_out">>
    ELSE [i \in 1..n |-> "split_" \o ToString(i - 1)]

IndexPermutations(n) == {p \in [1..n -> 1..n] : \A i, j \in 1..n : p[i] = p[j] => i = j}

\* mutant: the last split, too, gets its fraction of the subjects, rounded
SplitLensAllRounded(split_fracs, n_subjects) ==
    [i \in 1..Len(split_fracs) |-> PyRound(split_fracs[i] * n_subjects, FracDen)]
\* 345-346: every split but the last gets its fraction of the subjects,
\* rounded half to even; the last gets what is left, which may be negative
split_lens(split_fracs, n_subjects) ==
    LET rounded == [i \in 1..(Len(split_fracs) - 1) |->
                       PyRound(split_fracs[i] * n_subjects, FracDen)]
    IN Append(rounded, n_subjects - SumOver(DOMAIN rounded, rounded))

cumsum(lens) == [i \in 1..Len(lens) |-> SumOver(1..i, lens)]

\* 348: np.split(subjects, indices)[i], the slice from indices[i - 1] to
\* indices[i]; the piece after the last index is what zip leaves out
SplitPiece(subjects, indices, i) ==
    {subjects[j] : j \in ((IF i = 1 THEN 0 ELSE indices[i - 1]) + 1)..indices[i]
                         \cap 1..Len(subjects)}

\* 340-350, for the permutation of the splits and the order of the subjects
\* that np.random gave; bp_result.out keeps the local split_lens
SplitSubjectsOf(names, fracs, subjects) ==
    \E lens \in {split_lens(fracs, Len(subjects))} :
    \E indices \in {cumsum(lens)} :
      /\ bp_result' = [done |-> TRUE, out |-> lens]
      /\ split_subjects' = [k \in {names[i] : i \in 1..Len(names)} |->
            SplitPiece(subjects, indices,
                       CHOOSE i \in 1..Len(names) :
                           names[i] = k /\ \A j \in 1..Len(names) : names[j] = k => j <= i)]

split ==
    /\ calls.split < MaxSplitCalls
    /\ \E split_fracs \in {WithRemainder(f) : f \in SplitFracLists} :
       \E split_names_idx \in IndexPermutations(Len(split_fracs)) :
       \E subjects \in {s \in [1..Cardinality(bp_args.subject_ids) -> bp_args.subject_ids] :
                           \A i, j \in DOMAIN s : s[i] = s[j] => i = j} :
          SplitSubjectsOf([i \in 1..Len(split_fracs) |->
                              DefaultSplitNames(Len(split_fracs))[split_names_idx[i]]],
                          [i \in 1..Len(split_fracs) |-> split_fracs[split_names_idx[i]]],
                          subjects)
    /\ calls' = [split |-> calls.split + 1]
    /\ UNCHANGED <<bp_args, self_config, heap, inferred_measurement_configs,
                   subjects_df, events_df, dynamic_measurements_df,
                   _is_fit, pc, raised, read_result, limits, hist>>

\* ---- SpecSplit: split, up to MaxSplitCalls times, over a set of subject ids ------
InitSplit ==
    /\ bp_args \in [subject_ids : SUBSET (1..MaxSplitSubjects)]
    /\ bp_result = [done |-> TRUE, out |-> Null]
    /\ split_subjects = << >>
    /\ calls = [split |-> 0]
    /\ self_config = << >> /\ heap = << >> /\ inferred_measurement_configs = << >>
    /\ subjects_df = << >> /\ events_df = << >> /\ dynamic_measurements_df = << >>
    /\ _is_fit = FALSE /\ pc = << >> /\ raised = << >>
    /\ read_result = << >> /\ limits = << >> /\ hist = << >>

NextSplit == split

SpecSplit == InitSplit /\ [][NextSplit]_vars

\* C22: after split, every subject id is in exactly one of the sets of
\* split_subjects: the sets are pairwise disjoint and their union is the set
\* of subject ids.
C22_SplitIsPartition ==
    calls.split >= 1 =>
        /\ \A a, b \in DOMAIN split_subjects :
              a # b => split_subjects[a] \cap split_subjects[b] = {}
        /\ UNION {split_subjects[a] : a \in DOMAIN split_subjects} = bp_args.subject_ids

\* C22 witness: three subjects over three splits whose rounded lengths
\* overshoot, so that the last length is negative
C22_Witness ==
    /\ calls.split >= 1
    /\ Cardinality(bp_args.subject_ids) = 3
    /\ DOMAIN split_subjects = {"train", "tuning", "held_out"}
    /\ bp_result.out[Len(bp_result.out)] < 0

\* ---- preprocess_measurements (base 445-450) --------------------------------
\* While a call of preprocess_measurements runs, bp_result.done is FALSE and
\* bp_args holds the frame of the call: the call counters on entry, and the
\* number of calls of add_time_dependent_measurements the frame has made.

\* polars 345-363: with no FUNCTIONAL_TIME_DEPENDENT measurement in the
\* configuration, exprs and join_cols are empty and events_df gets no column
add_time_dependent_measurements == events_df

\* 448: the call starts with add_time_dependent_measurements
preprocess_measurements_begin ==
    /\ pc.op = "idle"
    /\ bp_result.done
    /\ calls.fit < limits.fit
    /\ calls.transform < limits.transform
    /\ events_df' = add_time_dependent_measurements
    /\ bp_args' = [entry |-> calls, add_calls |-> 1]
    /\ bp_result' = [done |-> FALSE, out |-> Null]
    /\ UNCHANGED <<subjects_df, dynamic_measurements_df, _is_fit, pc, raised,
                   read_result, calls, hist, fitVars, inputVars>>

\* 449: fit_measurements is called next
PreprocessCallsFit ==
    /\ ~bp_result.done
    /\ calls.fit = bp_args.entry.fit
    /\ fit_measurements_begin

\* mutant: transform_measurements is called without fit_measurements
PreprocessCallsTransformFirst ==
    /\ ~bp_result.done
    /\ calls.transform = bp_args.entry.transform
    /\ transform_measurements_begin
\* 450: transform_measurements is called once fit_measurements has returned
PreprocessCallsTransform ==
    /\ ~bp_result.done
    /\ calls.fit = bp_args.entry.fit + 1
    /\ raised.type = ""
    /\ calls.transform = bp_args.entry.transform
    /\ transform_measurements_begin

\* the call returns after transform_measurements, or ends with the exception
\* of one of its calls
preprocess_measurements_end ==
    /\ ~bp_result.done
    /\ pc.op = "idle"
    /\ calls.fit = bp_args.entry.fit + 1
    /\ raised.type # "" \/ calls.transform = bp_args.entry.transform + 1
    /\ bp_result' = [done |-> TRUE, out |-> Null]
    /\ UNCHANGED <<bp_args, _is_fit, pc, raised, read_result, calls, hist,
                   tableVars, fitVars, inputVars>>

NextPreprocess ==
    \/ preprocess_measurements_begin
    \/ PreprocessCallsFit
    \/ fit_measurements_step
    \/ fit_measurements_end
    \/ PreprocessCallsTransform
    \/ transform_measurements_step
    \/ transform_measurements_end
    \/ preprocess_measurements_end

\* ---- SpecPreprocess: calls of preprocess_measurements on one dataset -------
InitPreprocess ==
    InitDataset({"STATIC"}, CatColumnsSmall, DynTablesSmall, SplitsAll, SelfConfigsSmall,
                {NoMetadata}, {NoEventTypes},
                [fit |-> MaxFitCalls, transform |-> MaxTransformCalls, reads |-> FALSE])

SpecPreprocess == InitPreprocess /\ [][NextPreprocess]_vars

InPreprocess == bp_args # << >> /\ ~bp_result.done
PreprocessReturned == bp_args # << >> /\ bp_result.done /\ raised.type = ""

\* C23: a call of preprocess_measurements calls add_time_dependent_measurements,
\* fit_measurements and transform_measurements in that order: fit_measurements
\* runs after the one call of add_time_dependent_measurements and before any
\* call of transform_measurements, transform_measurements runs only once the
\* one call of fit_measurements has completed, and a call that returns has
\* made exactly one call of each.
C23_PreprocessOrder ==
    /\ InPreprocess /\ pc.op = "fit" =>
          /\ bp_args.add_calls = 1
          /\ calls.fit = bp_args.entry.fit + 1
          /\ calls.transform = bp_args.entry.transform
    /\ InPreprocess /\ pc.op = "transform" =>
          /\ bp_args.add_calls = 1
          /\ calls.fit = bp_args.entry.fit + 1
          /\ calls.transform = bp_args.entry.transform + 1
          /\ _is_fit
          /\ hist.last_fit.done /\ hist.last_fit.raised = ""
          /\ hist.last_fit.fits = calls.fit
    /\ PreprocessReturned =>
          /\ bp_args.add_calls = 1
          /\ calls.fit = bp_args.entry.fit + 1
          /\ calls.transform = bp_args.entry.transform + 1
          /\ hist.last_call = "transform"

\* C23 witness: a second call of preprocess_measurements has returned
C23_Witness ==
    /\ PreprocessReturned
    /\ bp_args.entry.fit = 1
    /\ calls = [fit |-> 2, transform |-> 2]

\* ---- which measurements fit_measurements fits (base 491-504) --------------
\* the column of the measure is in the table its configuration reads from
ColumnInSource(m) == m \in _get_source_df(heap[DeclaredRef(m)], FALSE).source_df.cols
\* what the counting, metadata and vocabulary steps leave in a configuration
NothingFitted(m) ==
    /\ InferredConfigs[m].observation_frequency = heap[DeclaredRef(m)].observation_frequency
    /\ InferredConfigs[m].vocabulary = NoVocab
    /\ InferredConfigs[m].measurement_metadata = NoMetadata

\* C24: a measurement declared dropped has no inferred configuration, and a
\* measurement whose column is not in its source has an inferred configuration
\* that is dropped and carries nothing of the counting, metadata and
\* vocabulary steps; whatever carries an observation frequency is declared
\* non-dropped and has its column in the source.
C24_OnlyPresentNonDroppedAreFitted ==
    \A m \in Measures :
        /\ is_dropped(heap[DeclaredRef(m)]) => m \notin DOMAIN inferred_measurement_configs
        /\ m \in DOMAIN inferred_measurement_configs /\ ~ColumnInSource(m) =>
              is_dropped(InferredConfigs[m]) /\ NothingFitted(m)
        /\ m \in DOMAIN inferred_measurement_configs
              /\ ~InferredConfigs[m].observation_frequency.is_none =>
              ~is_dropped(heap[DeclaredRef(m)]) /\ ColumnInSource(m)

\* C24 witness: a call of fit_measurements has returned: the measurement
\* without a column is inferred as dropped, the measurement declared dropped
\* has no entry, and the two measurements with a column were counted
C24_Witness ==
    /\ _is_fit
    /\ pc.op = "idle"
    /\ DOMAIN inferred_measurement_configs = {"not_present", "lab", "cat"}
    /\ is_dropped(InferredConfigs["not_present"])
    /\ ~InferredConfigs["lab"].observation_frequency.is_none
    /\ ~InferredConfigs["cat"].observation_frequency.is_none

\* ---- SpecCounts: fit_measurements under count and proportion minima -------
SelfConfigsCounts ==
    {SelfConfig(mvco, mve, NoneThr, NoneThr, NoModelConfig, NoModelConfig) :
        mvco \in {NoneThr, Count(2), Prop(2, 3), Prop(3, 4)},
        mve \in {NoneThr, Count(2)}}

InitCounts ==
    InitDataset({"STATIC"}, CatColumnsSmall, DynTablesData, SplitsData, SelfConfigsCounts,
                {NoMetadata}, {NoEventTypes},
                [fit |-> MaxFitCalls, transform |-> 0, reads |-> FALSE])

SpecCounts == InitCounts /\ [][NextFit]_vars

\* the counts of the column of m over its training source
TrainCounts(m) ==
    _total_possible_and_observed(m, heap[DeclaredRef(m)],
                                 _get_source_df(heap[DeclaredRef(m)], TRUE).source_df)
\* the measurements fit_measurements counted: inferred, with their column
Counted == {m \in DOMAIN inferred_measurement_configs : ColumnInSource(m)}

\* total_observed is below the minimum, a proportion being the exact
\* fraction n/d of total_possible
BelowExactMinimum(counts, minimum) ==
    \/ minimum.t = "count" /\ counts.num_non_null < minimum.n
    \/ minimum.t = "prop" /\ counts.num_non_null * minimum.d < minimum.n * counts.num_possible
\* total_observed is below the minimum, a proportion of total_possible being
\* rounded to the nearest count, halves to the even one
BelowRoundedMinimum(counts, minimum) ==
    \/ minimum.t = "count" /\ counts.num_non_null < minimum.n
    \/ minimum.t = "prop"
       /\ counts.num_non_null < PyRound(minimum.n * counts.num_possible, minimum.d)

DroppedByCounts(counts, below) == counts.num_possible = 0 \/ below
FrequencyOf(counts) ==
    [is_none |-> FALSE, observed |-> counts.num_non_null, possible |-> counts.num_possible]

\* the vocabulary of the non-numeric column m as fit_measurements fits and
\* filters it (527-535)
FilteredVocabulary(m, source_df) ==
    LET fv == _fit_vocabulary(m, heap[DeclaredRef(m)], source_df).vocabulary
    IN IF fv.is_none \/ self_config.min_valid_vocab_element_observations.t = "none" THEN fv
       ELSE filter(fv, Cardinality(source_df.rows),
                   self_config.min_valid_vocab_element_observations)

CountRules(m, counts, below) ==
    /\ DroppedByCounts(counts, below) => is_dropped(InferredConfigs[m])
    /\ ~DroppedByCounts(counts, below) =>
          InferredConfigs[m].observation_frequency = FrequencyOf(counts)
UnkRule(m) ==
    /\ ~is_dropped(InferredConfigs[m]) => InferredConfigs[m].vocabulary.vocabulary # <<"UNK">>
    /\ ~is_numeric(heap[DeclaredRef(m)])
       /\ FilteredVocabulary(m, _drop_df_nulls(
              _get_source_df(heap[DeclaredRef(m)], TRUE).source_df, m)).vocabulary = <<"UNK">>
       => is_dropped(InferredConfigs[m])

CensorBoundsOutside(x, b) ==
    {c \in {b.censor_lower_bound} : IsNum(c) /\ x.n < c.n}
    \cup {c \in {b.censor_upper_bound} : IsNum(c) /\ x.n > c.n}
NoBoundSupplied(b) ==
    /\ b.drop_lower_bound = Absent /\ b.drop_upper_bound = Absent
    /\ b.censor_lower_bound = Absent /\ b.censor_upper_bound = Absent

\* C26: a value outside a drop bound (strictly, or equal to it under a true
\* inclusive flag) comes back as NaN whatever the censor bounds are; a value
\* that is not dropped and lies outside a censor bound comes back as a censor
\* bound it lies outside of; with no bound supplied the cell comes back
\* unchanged.
C26_DropBeforeCensor ==
    bp_result.done =>
        /\ OutsideDropBound(bp_args.col, bp_args.b) => bp_result.out = NaN
        /\ IsNum(bp_args.col) /\ ~OutsideDropBound(bp_args.col, bp_args.b)
              /\ OutsideCensorBound(bp_args.col, bp_args.b)
              => bp_result.out \in CensorBoundsOutside(bp_args.col, bp_args.b)
        /\ NoBoundSupplied(bp_args.b) => bp_result.out = bp_args.col

\* C26 witness: a value equal to an inclusive lower drop bound and below the
\* lower censor bound has come back as NaN
C26_Witness ==
    /\ bp_result.done
    /\ IsNum(bp_args.col)
    /\ bp_args.b.drop_lower_bound = bp_args.col
    /\ bp_args.b.drop_lower_bound_inclusive = "T"
    /\ IsNum(bp_args.b.censor_lower_bound)
    /\ bp_args.col.n < bp_args.b.censor_lower_bound.n
    /\ bp_result.out = NaN

\* ---- SpecInfer: one call of _add_inferred_val_types or of -------------------
\* _fit_measurement_metadata on the rows of a MULTIVARIATE_REGRESSION
\* measurement with the keys k1 and k2
NumInferRows == 3
InferKeys == {"k1", "k2"}
\* the tag the declared metadata gives a key; Absent: the key has no row
PriorTags == {NoStr, "integer", "float", "categorical_float"}
InferMetadata ==
    {[k \in K |-> DeclaredMetadataRow(t[k], EmptyMetadataRow)] :
        K \in {{}, {"k1"}, {"k1", "k2"}}, t \in [InferKeys -> PriorTags]}
InferRows ==
    {{DynRow(r, ((r - 1) % NumSubjects) + 1, f[r].key, Num(f[r].val)) : r \in 1..NumInferRows} :
        f \in {g \in [1..NumInferRows -> [key : InferKeys, val : 1..(MaxVal * Unit)]] :
                  g[1].key = "k1"}}
SelfConfigsInfer ==
    {SelfConfig(NoneThr, mve, mu, mtf, NoModelConfig, NoModelConfig) :
        mve \in {NoneThr, Count(2)},
        mu \in {NoneThr, Count(2), Count(3), Prop(2, 3)},
        mtf \in {NoneThr, Prop(1, 2), Prop(3, 4)}}

InitInfer ==
    /\ bp_args \in [md_rows : InferMetadata, rows : InferRows]
    /\ bp_result = [done |-> FALSE, out |-> << >>]
    /\ self_config \in SelfConfigsInfer
    /\ heap = << >> /\ inferred_measurement_configs = << >>
    /\ subjects_df = << >> /\ events_df = << >> /\ dynamic_measurements_df = << >>
    /\ split_subjects = << >> /\ _is_fit = FALSE /\ pc = << >> /\ raised = << >>
    /\ read_result = << >> /\ calls = << >> /\ limits = << >> /\ hist = << >>

\* the call of polars 598-600, on rows with a key and a number
CallAddInferredValTypes ==
    /\ ~bp_result.done
    /\ bp_result' = [done |-> TRUE,
                     out |-> [fn |-> "_add_inferred_val_types",
                              rows |-> _add_inferred_val_types(bp_args.md_rows, bp_args.rows,
                                                               "lab", "lab_val")]]
    /\ UNCHANGED <<bp_args, self_config, heap, inferred_measurement_configs,
                   subjects_df, events_df, dynamic_measurements_df, split_subjects,
                   _is_fit, pc, raised, read_result, calls, limits, hist>>

\* the call of base 522
CallFitMeasurementMetadata ==
    /\ ~bp_result.done
    /\ bp_result' = [done |-> TRUE,
                     out |-> [fn |-> "_fit_measurement_metadata",
                              rows |-> _fit_measurement_metadata("lab",
                                  MeasurementConfig("DYNAMIC", "MULTIVARIATE_REGRESSION", "lab_val",
                                      NoEventTypes, [is_none |-> FALSE, rows |-> bp_args.md_rows]),
                                  [cols |-> {"lab", "lab_val", "event_id"},
                                   rows |-> bp_args.rows]).metadata.rows]]
    /\ UNCHANGED <<bp_args, self_config, heap, inferred_measurement_configs,
                   subjects_df, events_df, dynamic_measurements_df, split_subjects,
                   _is_fit, pc, raised, read_result, calls, limits, hist>>

NextInfer == CallAddInferredValTypes \/ CallFitMeasurementMetadata

SpecInfer == InitInfer /\ [][NextInfer]_vars

Inferred == bp_result.done /\ bp_result.out.fn = "_add_inferred_val_types"
MetadataFitted == bp_result.done /\ bp_result.out.fn = "_fit_measurement_metadata"
\* the keys of the source rows, and their values
ObservedKeys == {r.lab : r \in bp_args.rows}
ValuesOf(k) == {r.lab_val : r \in {x \in bp_args.rows : x.lab = k}}
ObservationsOf(k) == {r \in bp_args.rows : r.lab = k}
\* the tag the metadata gave the key before the call: null when it has none
PriorTag(k) == IF k \in DOMAIN bp_args.md_rows THEN bp_args.md_rows[k].value_type ELSE NoStr
\* the tag of the key after the call: null when the result has no row for it
TagAfter(k) ==
    IF k \in DOMAIN bp_result.out.rows THEN bp_result.out.rows[k].value_type ELSE NoStr

\* C27: a key whose value_type is non-null in the metadata has the same
\* value_type after _fit_measurement_metadata, a single-valued or too rare
\* key included; the tags that change were null.
C27_PriorTagKept ==
    MetadataFitted =>
        \A k \in InferKeys :
            /\ PriorTag(k) # NoStr => TagAfter(k) = PriorTag(k)
            /\ TagAfter(k) # PriorTag(k) => PriorTag(k) = NoStr

\* C27 witness: k1 is tagged float and has one distinct value, observed at
\* fewer events than the minimum asks for; the call returned float for it
\* and filled the null tag of k2
C27_Witness ==
    /\ MetadataFitted
    /\ PriorTag("k1") = "float"
    /\ Cardinality(ObservationsOf("k1")) = 1
    /\ self_config.min_valid_vocab_element_observations = Count(2)
    /\ TagAfter("k1") = "float"
    /\ "k2" \in DOMAIN bp_args.md_rows /\ PriorTag("k2") = NoStr
    /\ TagAfter("k2") # NoStr

\* ---- the single-value drop of _add_inferred_val_types (polars 476-487) ----
\* the keys value-type inference looks at: observed, without a tag
Untagged == {k \in ObservedKeys : PriorTag(k) = NoStr}
\* the fraction of the observations of k that equal their own rounding
\* exceeds 1 - min_true_float_frequency; never with the setting None
Integral(k) ==
    /\ self_config.min_true_float_frequency.t # "none"
    /\ Cardinality({r \in ObservationsOf(k) : IsIntegral(r.lab_val.n)})
           * self_config.min_true_float_frequency.d
       > Cardinality(ObservationsOf(k))
           * (self_config.min_true_float_frequency.d - self_config.min_true_float_frequency.n)
\* the values of k as steps b and c see them: rounded when k is integral
ConvertedValuesOf(k) ==
    IF Integral(k) THEN {RoundCell(v) : v \in ValuesOf(k)} ELSE ValuesOf(k)
\* the metadata has a row for k when step b runs: a declared row, or the row
\* the outer join with int_keys (462) added
HasRowAtDrop(k) ==
    k \in DOMAIN bp_args.md_rows \/ self_config.min_true_float_frequency.t # "none"

\* C28: a key without a prior tag is marked DROPPED by value-type inference
\* if and only if it has exactly one distinct observed value.
C28_SingleValueDropped ==
    Inferred =>
        \A k \in Untagged : TagAfter(k) = "dropped" <=> Cardinality(ValuesOf(k)) = 1

\* what the code does: the mark is set for a key with one distinct value
\* after the rounding of integral keys, where the metadata has a row for the
\* key at that step; a key without a row is not marked and gets no row
SingleConvertedValueDroppedWhereRowExists ==
    Inferred =>
        \A k \in Untagged :
            /\ HasRowAtDrop(k) =>
                  (TagAfter(k) = "dropped" <=> Cardinality(ConvertedValuesOf(k)) = 1)
            /\ ~HasRowAtDrop(k) /\ Cardinality(ValuesOf(k)) = 1 =>
                  k \notin DOMAIN bp_result.out.rows

\* ---- the inferred value type (polars 489-518) -------------------------------
\* the distinct values of k are fewer than min_unique_numerical_observations,
\* a count or a proportion of the observations of k; never with None
Categorical(k, values) ==
    lt_count_or_proportion(Cardinality(values),
                           self_config.min_unique_numerical_observations,
                           Cardinality(ObservationsOf(k)), TRUE)
TypeTable(is_int, is_categorical) ==
    IF is_int /\ is_categorical THEN "categorical_integer"
    ELSE IF is_categorical THEN "categorical_float"
    ELSE IF is_int THEN "integer"
    ELSE "float"
\* the keys without a prior tag that value-type inference did not drop
UntaggedKept == {k \in Untagged : TagAfter(k) # "dropped"}
\* the metadata has a row for k at the end: a declared row, or a row added by
\* the outer join with int_keys (462) or with categorical_keys (500)
HasRowAtEnd(k) ==
    \/ k \in DOMAIN bp_args.md_rows
    \/ self_config.min_true_float_frequency.t # "none"
    \/ self_config.min_unique_numerical_observations.t # "none"

\* C29: a key without a prior tag that is not dropped gets the type of the
\* table: categorical_integer when integral and categorical,
\* categorical_float when only categorical, integer when only integral,
\* float otherwise; integral and categorical are taken over the observed
\* values of the key.
C29_InferredTypeTable ==
    Inferred =>
        \A k \in UntaggedKept :
            TagAfter(k) = TypeTable(Integral(k), Categorical(k, ValuesOf(k)))

\* what the code does: for the keys that keep more than one distinct value
\* after the rounding of integral keys, the table holds with the distinct
\* values counted after that rounding, where the metadata has a row for the
\* key; a key without a row gets none
InferredTypeTableWhereRowExists ==
    Inferred =>
        \A k \in {u \in Untagged : Cardinality(ConvertedValuesOf(u)) > 1} :
            /\ HasRowAtEnd(k) =>
                  TagAfter(k) = TypeTable(Integral(k), Categorical(k, ConvertedValuesOf(k)))
            /\ ~HasRowAtEnd(k) => k \notin DOMAIN bp_result.out.rows

\* ---- SpecCategorical: one call of _transform_categorical_measurement -------
NumSymbolRows == 3
ObservedSymbols == {NoStr, "UNK", "a", "b", "k1"}
FittedVocabularies ==
    {Vocabulary(counts) : counts \in UNION {[S -> {1}] : S \in SUBSET {"a", "b"}}}
SymbolRows ==
    {{DynRow(r, ((r - 1) % NumSubjects) + 1, f[r], Num(Unit)) : r \in 1..NumSymbolRows} :
        f \in [1..NumSymbolRows -> ObservedSymbols]}

InitCategorical ==
    /\ bp_args \in [modality : {"SINGLE_LABEL_CLASSIFICATION", "MULTIVARIATE_REGRESSION"},
                    vocabulary : FittedVocabularies, rows : SymbolRows]
    /\ bp_result = [done |-> FALSE, out |-> << >>]
    /\ self_config = << >> /\ heap = << >> /\ inferred_measurement_configs = << >>
    /\ subjects_df = << >> /\ events_df = << >> /\ dynamic_measurements_df = << >>
    /\ split_subjects = << >> /\ _is_fit = FALSE /\ pc = << >> /\ raised = << >>
    /\ read_result = << >> /\ calls = << >> /\ limits = << >> /\ hist = << >>

\* the call of base 587, on the rows of the measurement lab
CallTransformCategorical ==
    /\ ~bp_result.done
    /\ bp_result' =
           [done |-> TRUE,
            out |-> _transform_categorical_measurement("lab",
                        [MeasurementConfig("DYNAMIC", bp_args.modality, "lab_val",
                                           NoEventTypes, NoMetadata)
                            EXCEPT !.vocabulary = bp_args.vocabulary],
                        [cols |-> {"measurement_id", "event_id", "lab", "lab_val"},
                         rows |-> bp_args.rows])]
    /\ UNCHANGED <<bp_args, self_config, heap, inferred_measurement_configs,
                   subjects_df, events_df, dynamic_measurements_df, split_subjects,
                   _is_fit, pc, raised, read_result, calls, limits, hist>>

NextCategorical == CallTransformCategorical

SpecCategorical == InitCategorical /\ [][NextCategorical]_vars

\* the rows of the result that come from the source row r
ResultRowsOf(r) == {o \in bp_result.out.rows : o.measurement_id = r.measurement_id}

\* C30: every source row has exactly one row in the result and the result has
\* no other row; the symbol of that row is 'UNK' where the source symbol is
\* non-null and not in the vocabulary, the source symbol where it is in the
\* vocabulary, and null where it is null.
C30_UnknownSymbolsToUNK ==
    bp_result.done =>
        /\ Cardinality(bp_result.out.rows) = Cardinality(bp_args.rows)
        /\ \A r \in bp_args.rows :
              /\ Cardinality(ResultRowsOf(r)) = 1
              /\ \A o \in ResultRowsOf(r) :
                    o.lab = IF r.lab = NoStr THEN NoStr
                            ELSE IF r.lab \in vocab_set(bp_args.vocabulary) THEN r.lab
                            ELSE "UNK"

\* C30 witness: a call on rows with a null symbol, a symbol of the
\* vocabulary and a symbol outside it has returned
C30_Witness ==
    /\ bp_result.done
    /\ bp_args.vocabulary.vocabulary = <<"UNK", "a">>
    /\ {r.lab : r \in bp_args.rows} = {NoStr, "a", "b"}
    /\ {o.lab : o \in bp_result.out.rows} = {NoStr, "a", "UNK"}

====
